---- MODULE Spec2Model ----
(***************************************************************************)
(* A model of the rig construction and deformation-separation pipeline of  *)
(* ov_makehuman (exts/siborg.create.human): create_skeleton,               *)
(* vertices_to_weights, compute_blendshape_points, joints_from_points,     *)
(* blendshape_to_skeltarget, calculate_skeltarget_verts,                   *)
(* separate_blendshape and the modifier evaluator get_blendshape_vals.     *)
(*                                                                         *)
(* Numbers are exact rationals <<n, d>> (d > 0, lowest terms); the float   *)
(* value nan is <<0, 0>>.  Rounding of float32/float64 is not modelled.    *)
(* Every transform the code builds is np.eye(4) with a translation column, *)
(* so a transform is modelled by its translation vector.                   *)
(* Python arrays are 0-based: element i of an array is At(arr, i).         *)
(***************************************************************************)
EXTENDS Integers, Sequences, FiniteSets, TLC

VARIABLES
    pc,            \* position of the program: see the actions
    mesh_verts,    \* the "points" attribute of the body mesh
    rig,           \* the bone records of the .mhskel file, in file order
    weights_data,  \* the "weights" table of the weights file
    skel,          \* the UsdSkel.Skeleton prim written by create_skeleton
    binding,       \* the joint indices / joint weights primvars of the body
    blendshapes,   \* the blend shape prims bound to the body, in target order
    skeltargets,   \* the skeltarget animation prims, by blend shape name
    files,         \* the .skeltarget files on disk, by blend shape name
    anim,          \* the transforms of the skeleton's animation source
    loc,           \* the locals of the last call, as it returned or raised
    diag,          \* the uncaught exception that ended the script, or "none"
    saved,         \* the blend shapes of the root layer as last saved
    modifier_data, \* the modifier record a slider callback closes over
    blendshape_vals, \* what get_blendshape_vals returned to the last callback
    macrodata,     \* the module global macrodata of buildusd/modifiers.py
    stage,         \* the blend shape prims and mesh bindings of the stage
    targets_dir,   \* the .target files of the targets directory, in walk order
    log,           \* the lines printed so far
    run,           \* how many times the separation script was started
    pool           \* the thread pool of applyJointAnimation and its tasks

vars == <<pc, mesh_verts, rig, weights_data, skel, binding, blendshapes,
          skeltargets, files, anim, loc, diag, saved, modifier_data,
          blendshape_vals, macrodata, stage, targets_dir, log, run, pool>>

\* The state of the asset build (buildusd.py), which the separation script
\* and the slider callbacks neither read nor write.
build_state == <<macrodata, stage, targets_dir, log>>

-----------------------------------------------------------------------------
(* Bounds of the model. *)

NumVerts == 4

\* How many times the separation script is started.
MaxRuns == 2

-----------------------------------------------------------------------------
(* Float arithmetic, exact. *)

Abs(x) == IF x < 0 THEN -x ELSE x

RECURSIVE GCD(_, _)
GCD(a, b) == IF b = 0 THEN a ELSE GCD(b, a % b)

NaN == <<0, 0>>

IsNaN(x) == x[2] = 0

Rat(n, d) ==
    IF d = 0 THEN NaN
    ELSE LET g == GCD(Abs(n), Abs(d))
             s == IF d < 0 THEN -1 ELSE 1
         IN  <<(s * n) \div g, (s * d) \div g>>

Num(n) == <<n, 1>>

Zero == Num(0)

One == Num(1)

RAdd(x, y) == IF IsNaN(x) \/ IsNaN(y) THEN NaN
              ELSE Rat(x[1] * y[2] + y[1] * x[2], x[2] * y[2])

RNeg(x) == IF IsNaN(x) THEN NaN ELSE <<-x[1], x[2]>>

RSub(x, y) == RAdd(x, RNeg(y))

RMul(x, y) == IF IsNaN(x) \/ IsNaN(y) THEN NaN
              ELSE Rat(x[1] * y[1], x[2] * y[2])

\* numpy true division: 0/0 is nan (a RuntimeWarning, no exception).  The
\* weights of the model are never negative, so x/0 with x # 0 does not arise.
RDiv(x, y) == IF IsNaN(x) \/ IsNaN(y) THEN NaN
              ELSE Rat(x[1] * y[2], x[2] * y[1])

\* Python's < on floats: any comparison with nan is False.
RLess(x, y) == ~IsNaN(x) /\ ~IsNaN(y) /\ x[1] * y[2] < y[1] * x[2]

RECURSIVE RSum(_)
RSum(s) == IF s = <<>> THEN Zero ELSE RAdd(Head(s), RSum(Tail(s)))

(* 3-vectors. *)

Vec(x, y, z) == <<Num(x), Num(y), Num(z)>>

VZero == Vec(0, 0, 0)

VAdd(a, b) == [c \in 1..3 |-> RAdd(a[c], b[c])]

VSub(a, b) == [c \in 1..3 |-> RSub(a[c], b[c])]

VScale(w, a) == [c \in 1..3 |-> RMul(w, a[c])]

RECURSIVE VSum(_)
VSum(s) == IF s = <<>> THEN VZero ELSE VAdd(Head(s), VSum(Tail(s)))

VHasNaN(a) == \E c \in 1..3 : IsNaN(a[c])

\* Element i (0-based) of a Python list or numpy array; a negative i counts
\* from the end.
At(arr, i) == arr[IF i < 0 THEN Len(arr) + i + 1 ELSE i + 1]

\* Whether arr[i] exists: otherwise the access is an IndexError.
InBounds(arr, i) == i >= -Len(arr) /\ i < Len(arr)

\* arr[idxs]: numpy indexing of an array by an index list.
Take(arr, idxs) == [k \in 1..Len(idxs) |-> At(arr, idxs[k])]

\* np.mean(rows, axis=0); the mean of no rows is nan.
Mean(rows) == [c \in 1..3 |-> RDiv(VSum(rows)[c], Num(Len(rows)))]

Range(s) == {s[k] : k \in 1..Len(s)}

-----------------------------------------------------------------------------
(* RigBuilder: skeletons.py *)

\* Python's None, and a value that is not None.
None == [has |-> FALSE]

Some(x) == [has |-> TRUE, val |-> x]

\* The parent of a bone that has none ("parent": null in the .mhskel file).
NoParent == "None"

\* The sub-dict build_tree(node_name) returns: the bones whose parent is
\* node_name, in file order (each carries its own children sub-dict).
build_tree(bones, node_name) == SelectSeq(bones, LAMBDA b : b.parent = node_name)

\* The pair with the rest transform left in world space.
compute_transforms_WorldRest(head_vertices, parent_vertices) ==
    LET head_position == Mean(head_vertices)
    IN  [rest |-> head_position, bind |-> head_position]

\* The (rest, bind) pair of a joint.  rest is the head position minus the
\* parent's head position when parent vertices are given.
compute_transforms(head_vertices, parent_vertices) ==
    LET head_position == Mean(head_vertices)
        local_head == IF parent_vertices.has
                      THEN VSub(head_position, Mean(parent_vertices.val))
                      ELSE head_position
    IN  [rest |-> local_head, bind |-> head_position]

\* The first parentless bone taken for the root.
RootOf_FirstParentless(bones) == build_tree(bones, NoParent)[1]

\* Line 44: the last key of the rig dict whose item has no parent.  The rig
\* dict is build_tree(None), so its keys are exactly the parentless bones.
RootOf(bones) ==
    LET tops == build_tree(bones, NoParent)
    IN  tops[Len(tops)]

\* Lines 53-61: the state of create_skeleton when the traversal starts.  The
\* root's transforms are compute_transforms(mesh_verts, root_vertices): the
\* whole vertex array is passed as the head vertices and the root's own head
\* vertices as the parent vertices.
RootState(bones, verts) ==
    LET root == RootOf(bones)
        root_vert_idxs == root.head
        root_vertices == Take(verts, root_vert_idxs)
        x == compute_transforms(verts, Some(root_vertices))
    IN  [queue |-> <<root>>,
         path_queue |-> <<(<<root.name>>)>>,
         visited |-> <<>>,
         joint_paths |-> <<(<<root.name>>)>>,
         joint_names |-> <<root.name>>,
         bind_xforms |-> <<x.bind>>,
         rest_xforms |-> <<x.rest>>,
         helper_vertices |-> (<<root.name>> :> root_vert_idxs)]

\* Lines 66-81: the for loop over the children of the popped bone v.
RECURSIVE VisitNeighbors(_, _, _, _, _)
VisitNeighbors(verts, v, path, neighbors, st) ==
    IF neighbors = <<>> THEN st
    ELSE LET neighbor == Head(neighbors)
             child_path == Append(path, neighbor.name)
             x == compute_transforms(Take(verts, neighbor.head),
                                     Some(Take(verts, v.head)))
             st2 == IF neighbor.name \in Range(st.visited) THEN st
                    ELSE [st EXCEPT
                            !.visited = Append(@, neighbor.name),
                            !.queue = Append(@, neighbor),
                            !.path_queue = Append(@, child_path),
                            !.joint_paths = Append(@, child_path),
                            !.joint_names = Append(@, neighbor.name),
                            !.helper_vertices = (child_path :> neighbor.head) @@ @,
                            !.rest_xforms = Append(@, x.rest),
                            !.bind_xforms = Append(@, x.bind)]
         IN  VisitNeighbors(verts, v, path, Tail(neighbors), st2)

\* Lines 63-81: the breadth-first traversal.
RECURSIVE Traverse(_, _, _)
Traverse(bones, verts, st) ==
    IF st.queue = <<>> THEN st
    ELSE LET v == Head(st.queue)
             path == Head(st.path_queue)
             st1 == [st EXCEPT !.queue = Tail(@), !.path_queue = Tail(@)]
         IN  Traverse(bones, verts,
                      VisitNeighbors(verts, v, path, build_tree(bones, v.name), st1))

\* The attributes and custom data of the Skeleton prim (lines 83-87).
create_skeleton(bones, verts) ==
    LET st == Traverse(bones, verts, RootState(bones, verts))
    IN  [joint_names |-> st.joint_names,
         joints |-> st.joint_paths,
         bindTransforms |-> st.bind_xforms,
         restTransforms |-> st.rest_xforms,
         customData |-> st.helper_vertices]

-----------------------------------------------------------------------------
(* SkinWeightResolver: skeletons.py *)

\* list.index(x): the 0-based position of the first x.
RECURSIVE IndexFrom(_, _, _)
IndexFrom(s, x, k) == IF s[k] = x THEN k - 1 ELSE IndexFrom(s, x, k + 1)

IndexOf(s, x) == IndexFrom(s, x, 1)

RECURSIVE SeqMax(_)
SeqMax(s) == IF Len(s) = 1 THEN s[1]
             ELSE LET m == SeqMax(Tail(s)) IN IF s[1] > m THEN s[1] ELSE m

\* Lines 118-125: what the two nested loops append to the lists of vertex idx,
\* from joint number k of joint_names on: (joint index, weight) pairs.  A
\* joint without an entry in the weights table is skipped.
RECURSIVE Influences(_, _, _, _)
Influences(joint_names, wdata, idx, k) ==
    IF k > Len(joint_names) THEN <<>>
    ELSE LET joint == joint_names[k]
             mine == IF joint \in DOMAIN wdata
                     THEN SelectSeq(wdata[joint], LAMBDA vertex_data : vertex_data[1] = idx)
                     ELSE <<>>
         IN  [i \in 1..Len(mine) |-> <<IndexOf(joint_names, joint), mine[i][2]>>]
             \o Influences(joint_names, wdata, idx, k + 1)

\* Lines 128-129: a list padded with 0 to max_len.
Pad(x, max_len, zero) == x \o [i \in 1..(max_len - Len(x)) |-> zero]

\* Line 131: a row divided by its sum.
NormalizeRow(row) == [i \in 1..Len(row) |-> RDiv(row[i], RSum(row))]

vertices_to_weights(joint_names, wdata, vertices) ==
    LET n == Len(vertices)
        lists == [v \in 1..n |-> Influences(joint_names, wdata, v - 1, 1)]
        max_len == SeqMax([v \in 1..n |-> Len(lists[v])])
        indices == [v \in 1..n |->
                      Pad([i \in 1..Len(lists[v]) |-> lists[v][i][1]], max_len, 0)]
        weights == [v \in 1..n |->
                      Pad([i \in 1..Len(lists[v]) |-> lists[v][i][2]], max_len, Zero)]
    IN  [joint_indices |-> indices,
         joint_weights |-> [v \in 1..n |-> NormalizeRow(weights[v])]]

-----------------------------------------------------------------------------
(* The inputs the rig build is run on. *)

Coords == {Vec(0, 0, 0), Vec(0, 1, 0)}

VertexArrays == [1..NumVerts -> Coords]

Bone(name, parent, head) == [name |-> name, parent |-> parent, head |-> head]

\* Rig files: two joints with two head vertices each; a chain of three; a
\* file with two parentless bones; a root with two children; a root with
\* two children, the first of which has a child.
Rigs ==
    { << Bone("root", NoParent, <<0, 1>>), Bone("spine", "root", <<2, 3>>) >>,
      << Bone("root", NoParent, <<0>>), Bone("spine", "root", <<1>>),
         Bone("arm", "spine", <<2>>) >>,
      << Bone("extra", NoParent, <<3>>), Bone("spine", "root", <<1>>),
         Bone("root", NoParent, <<0>>) >>,
      << Bone("root", NoParent, <<0, 1>>), Bone("arm", "root", <<2>>),
         Bone("spine", "root", <<1, 2>>) >>,
      << Bone("root", NoParent, <<0>>), Bone("spine", "root", <<1>>),
         Bone("arm", "root", <<2>>), Bone("hand", "spine", <<3>>) >> }

W(idx, n, d) == <<idx, Rat(n, d)>>

\* Weights files: every vertex on the root; one joint per vertex; a vertex
\* shared 1/4 : 3/4 by two joints with unnormalized raw weights; a file that
\* leaves vertex 3 without any weight; a file that gives vertex 3 weight 0.
WeightTables ==
    { [j \in {"root"} |-> [v \in 1..NumVerts |-> W(v - 1, 1, 1)]],
      ("root" :> <<W(0, 1, 1), W(1, 1, 1)>>) @@
      ("spine" :> <<W(2, 1, 1), W(3, 1, 2)>>),
      ("root" :> <<W(0, 1, 1), W(1, 1, 1), W(2, 1, 2), W(3, 1, 1)>>) @@
      ("spine" :> <<W(2, 3, 2), W(3, 1, 1)>>) @@
      ("tail" :> <<W(0, 1, 1)>>),
      ("root" :> <<W(0, 1, 1), W(1, 1, 1)>>) @@
      ("spine" :> <<W(2, 1, 1)>>),
      ("root" :> <<W(0, 1, 1), W(1, 1, 1), W(2, 1, 1), W(3, 0, 1)>>) }

-----------------------------------------------------------------------------
(* SkeltargetSeparator: separate_skeltargets.py *)

\* A BlendShape prim: its name, its offsets and pointIndices attributes, the
\* targets of its "skeltarget" relationship, and whether separate_blendshape
\* has overwritten its offsets.
BlendShape(name, indices, offsets) ==
    [name |-> name, pointIndices |-> indices, offsets |-> offsets,
     skeltarget |-> <<>>, separated |-> FALSE]

\* UsdSkel's application of one sub-shape: points[indices[k]] += weight *
\* offsets[k] for k in order, from entry k on.
RECURSIVE ApplyBlendShape(_, _, _, _, _)
ApplyBlendShape(weight, offsets, indices, points, k) ==
    IF k > Len(indices) THEN points
    ELSE ApplyBlendShape(weight, offsets, indices,
             [points EXCEPT ![indices[k] + 1] = VAdd(@, VScale(weight, offsets[k]))],
             k + 1)

\* The weights with line 246 lost: no blend shape is zeroed out.
WeightsOnBody_NotZeroed(shapes, blendshape_name, weight) ==
    [i \in 1..Len(shapes) |-> weight]

\* Lines 243-249: the weight of every blend shape of the body: weight where
\* the name is blendshape_name, zero elsewhere.
WeightsOnBody(shapes, blendshape_name, weight) ==
    [i \in 1..Len(shapes) |-> IF shapes[i].name = blendshape_name THEN weight ELSE Zero]

\* ComputeDeformedPoints: every blend shape of non-zero weight is applied in
\* target order, from shape i on.
RECURSIVE DeformedPoints(_, _, _, _)
DeformedPoints(shapes, weights_on_body, points, i) ==
    IF i > Len(shapes) THEN points
    ELSE DeformedPoints(shapes, weights_on_body,
             IF weights_on_body[i] = Zero THEN points
             ELSE ApplyBlendShape(weights_on_body[i], shapes[i].offsets,
                                  shapes[i].pointIndices, points, 1),
             i + 1)

\* ComputeDeformedPoints reports failure when a blend shape it applies names
\* a point the mesh does not have.
DeformSucceeds(shapes, weights_on_body, points) ==
    \A i \in 1..Len(shapes) :
        weights_on_body[i] # Zero =>
            \A k \in 1..Len(shapes[i].pointIndices) :
                shapes[i].pointIndices[k] \in 0..(Len(points) - 1)

\* The points with every blend shape of the body at the weight.
compute_blendshape_points_AllShapes(points, shapes, blendshape_name, weight) ==
    LET weights_on_body == [i \in 1..Len(shapes) |-> weight]
    IN  IF DeformSucceeds(shapes, weights_on_body, points)
        THEN Some(DeformedPoints(shapes, weights_on_body, points, 1))
        ELSE None

\* new_points, or None where the code raises ValueError (line 271).
compute_blendshape_points(points, shapes, blendshape_name, weight) ==
    LET weights_on_body == WeightsOnBody(shapes, blendshape_name, weight)
    IN  IF DeformSucceeds(shapes, weights_on_body, points)
        THEN Some(DeformedPoints(shapes, weights_on_body, points, 1))
        ELSE None

\* compute_transform: the translation to the centroid of the head vertices.
compute_transform(head_vertices) == Mean(head_vertices)

\* UsdSkel.Topology: the index (1-based here) of a joint's parent path among
\* the joint paths, 0 for a joint without one.
ParentIndex(joints, i) ==
    LET parent_path == SubSeq(joints[i], 1, Len(joints[i]) - 1)
    IN  IF \E p \in 1..Len(joints) : joints[p] = parent_path
        THEN CHOOSE p \in 1..Len(joints) : joints[p] = parent_path
        ELSE 0

\* The transforms left in world space.
joints_from_points_World(resize_skel, points) ==
    [i \in 1..Len(resize_skel.joints) |->
       compute_transform(Take(points, resize_skel.customData[resize_skel.joints[i]]))]

\* Lines 293-301: one world-space transform per joint from the centroid of its
\* helper vertices in points, then made local to the parent joint.
joints_from_points(resize_skel, points) ==
    LET joints == resize_skel.joints
        bone_vertices_idxs == resize_skel.customData
        xforms == [i \in 1..Len(joints) |->
                     compute_transform(Take(points, bone_vertices_idxs[joints[i]]))]
    IN  [i \in 1..Len(joints) |->
           IF ParentIndex(joints, i) = 0 THEN xforms[i]
           ELSE VSub(xforms[i], xforms[ParentIndex(joints, i)])]

\* Lines 51-61: the JSON document of a .skeltarget file: the joints in joint
\* order, each with its translation (rotation and scale are the identity's).
SkeltargetFile(blendshape_name, joints, xforms) ==
    [blendshape |-> blendshape_name,
     skeleton |-> [i \in 1..Len(joints) |->
                     [joint |-> joints[i], translation |-> xforms[i]]]]

\* Skeleton-space transform of joint i: the local transforms of the animation
\* composed along the parent chain.
RECURSIVE JointSkelTransform(_, _, _)
JointSkelTransform(joints, local_xforms, i) ==
    IF ParentIndex(joints, i) = 0 THEN local_xforms[i]
    ELSE VAdd(JointSkelTransform(joints, local_xforms, ParentIndex(joints, i)),
              local_xforms[i])

\* ComputeSkinningTransforms: inverse bind transform times skeleton-space
\* transform, per joint.
SkinningTransforms(resize_skel, local_xforms) ==
    [i \in 1..Len(resize_skel.joints) |->
       VSub(JointSkelTransform(resize_skel.joints, local_xforms, i),
            resize_skel.bindTransforms[i])]

\* Linear blend skinning of one point: the sum over its influences of non-zero
\* weight of weight * (skinning transform of the joint applied to the point).
SkinPoint(point, indices, weights, skinning_xforms) ==
    VSum([i \in 1..Len(weights) |->
            IF weights[i] = Zero THEN VZero
            ELSE VScale(weights[i], VAdd(point, At(skinning_xforms, indices[i])))])

\* Lines 141-173.  skinned_points starts as a copy of points;
\* ComputeSkinnedPoints overwrites it when it succeeds and its return value
\* is not read.  skel_to_prim_local is the identity: neither prim has a
\* transform of its own.
applyJointAnimation(skin, resize_skel, local_xforms, points, skinned_ok) ==
    LET skinning_xforms == SkinningTransforms(resize_skel, local_xforms)
        skinned_points ==
            IF skinned_ok
            THEN [v \in 1..Len(points) |->
                    SkinPoint(points[v], skin.joint_indices[v],
                              skin.joint_weights[v], skinning_xforms)]
            ELSE points
        skel_to_prim_local == VZero
    IN  [v \in 1..Len(points) |-> VAdd(skinned_points[v], skel_to_prim_local)]

\* Lines 94-103: the joint transforms read back from the .skeltarget file.
TransformsOfFile(file) ==
    [i \in 1..Len(file.skeleton) |-> file.skeleton[i].translation]

\* The corrected offsets with the deformation offset read at the position k
\* of the blend shape's list instead of at the vertex blendshape_indices[k].
CorrectedOffsets_ByPosition(blendshape_offsets, blendshape_indices, skel_deformation, default_points) ==
    [k \in 1..Len(blendshape_offsets) |->
       VSub(blendshape_offsets[k], VSub(skel_deformation[k], default_points[k]))]

\* Lines 189-196: the corrected offsets.
CorrectedOffsets(blendshape_offsets, blendshape_indices, skel_deformation, default_points) ==
    LET skeletal_deformation_offset ==
            [v \in 1..Len(default_points) |->
               VSub(skel_deformation[v], default_points[v])]
    IN  [k \in 1..Len(blendshape_offsets) |->
           VSub(blendshape_offsets[k],
                At(skeletal_deformation_offset, blendshape_indices[k]))]

-----------------------------------------------------------------------------
(* The blend shapes the separation is run on. *)

ShapeA == BlendShape("a", <<2, 3>>, <<Vec(0, 1, 0), Vec(0, 1, 0)>>)

ShapeB == BlendShape("b", <<3>>, <<Vec(0, -1, 0)>>)

ShapeC == BlendShape("c", <<0, 2>>, <<Vec(0, 1, 0), Vec(1, 0, 0)>>)

\* A target that names a vertex the mesh does not have.
ShapeD == BlendShape("d", <<1, NumVerts>>, <<Vec(0, 1, 0), Vec(0, 1, 0)>>)

Scenes == { <<ShapeA>>, <<ShapeB, ShapeC>>, <<ShapeC, ShapeA>>, <<ShapeB, ShapeD>> }

-----------------------------------------------------------------------------
(* The program: build_skeleton, then the main loop of separate_skeltargets. *)

At_(phase, i) == [phase |-> phase, i |-> i]

NoSkeleton ==
    [joint_names |-> <<>>, joints |-> <<>>, bindTransforms |-> <<>>,
     restTransforms |-> <<>>, customData |-> <<>>]

NoBinding == [joint_indices |-> <<>>, joint_weights |-> <<>>]

NoCall == [fn |-> "none"]

NoModifier == [kind |-> "none"]

\* No pool: applyJointAnimation is not running.
NoPool == [main |-> "none"]

NoStage ==
    [targets |-> FALSE, groups |-> {}, prims |-> <<>>, meshes |-> <<>>,
     modifiers |-> None]

\* The asset build has not run: macrodata is the empty dict of line 126.
NoBuild ==
    /\ macrodata = <<>>
    /\ stage = NoStage
    /\ targets_dir = <<>>
    /\ log = <<>>

Init ==
    /\ pc = At_("build", 0)
    /\ mesh_verts \in VertexArrays
    /\ rig \in Rigs
    /\ weights_data \in WeightTables
    /\ blendshapes \in Scenes
    /\ skel = NoSkeleton
    /\ binding = NoBinding
    /\ skeltargets = <<>>
    /\ files = <<>>
    /\ anim = <<>>
    /\ loc = NoCall
    /\ diag = "none"
    /\ saved = None
    /\ run = 1
    /\ pool = NoPool
    /\ modifier_data = NoModifier
    /\ blendshape_vals = None
    /\ NoBuild

\* The bones create_skeleton comes to: the root and, level by level, the
\* bones whose parent it came to before.
RECURSIVE Reached(_, _)
Reached(bones, names) ==
    LET more == names \cup {bones[k].name : k \in {i \in 1..Len(bones) : bones[i].parent \in names}}
    IN  IF more = names THEN names ELSE Reached(bones, more)

\* The exception create_skeleton ends with, or "none": line 44 takes [-1] of
\* an empty list when no bone is parentless, and lines 55, 77 and 78 index
\* mesh_verts by the head vertices of the bones the traversal comes to.
create_skeleton_raises(bones, verts) ==
    IF build_tree(bones, NoParent) = <<>> THEN "IndexError"
    ELSE IF \E k \in 1..Len(bones) :
               /\ bones[k].name \in Reached(bones, {RootOf(bones).name})
               /\ \E h \in 1..Len(bones[k].head) : ~InBounds(verts, bones[k].head[h])
    THEN "IndexError"
    ELSE "none"

\* build_skeleton (skeletons.py 9-33): create_skeleton, vertices_to_weights
\* and the binding of the result to the body.  The separation script then
\* starts on the first blend shape target of the body.
BuildSkeleton ==
    /\ pc.phase = "build"
    /\ LET exception == create_skeleton_raises(rig, mesh_verts)
           skeleton == create_skeleton(rig, mesh_verts)
       IN  IF exception # "none"
           THEN /\ diag' = exception
                /\ pc' = At_("raised", 0)
                /\ UNCHANGED <<skel, binding>>
           ELSE /\ skel' = skeleton
                /\ binding' = vertices_to_weights(skeleton.joint_names, weights_data, mesh_verts)
                /\ pc' = At_("to_skeltarget", 1)
                /\ diag' = diag
    /\ UNCHANGED <<mesh_verts, rig, weights_data, blendshapes, skeltargets,
                   files, anim, loc, saved, modifier_data, blendshape_vals>>
    /\ UNCHANGED run
    /\ UNCHANGED pool
    /\ UNCHANGED build_state

\* blendshape_to_skeltarget (11-64) for blend shape pc.i.  dir_ok: whether
\* open(output_path, "w") finds the skeltargets directory, which the script
\* does not create.
BlendshapeToSkeltarget ==
    /\ pc.phase = "to_skeltarget"
    /\ \E dir_ok \in BOOLEAN :
         LET blendshape == blendshapes[pc.i]
             blendshape_name == blendshape.name
             points == compute_blendshape_points(mesh_verts, blendshapes, blendshape_name, One)
             xforms == joints_from_points(skel, points.val)
         IN  IF ~points.has
             THEN /\ pc' = At_("raised", pc.i)
                  /\ diag' = "ValueError"
                  /\ loc' = [fn |-> "blendshape_to_skeltarget",
                             blendshape_name |-> blendshape_name]
                  /\ UNCHANGED <<blendshapes, skeltargets, files>>
             ELSE /\ skeltargets' = (blendshape_name :>
                                       [transforms |-> xforms, joints |-> skel.joints])
                                    @@ skeltargets
                  /\ blendshapes' = [blendshapes EXCEPT ![pc.i].skeltarget =
                                        IF blendshape_name \in Range(@) THEN @
                                        ELSE Append(@, blendshape_name)]
                  /\ loc' = [fn |-> "blendshape_to_skeltarget",
                             blendshape_name |-> blendshape_name,
                             points |-> points.val, xforms |-> xforms]
                  /\ IF dir_ok
                     THEN /\ files' = (blendshape_name :>
                                         SkeltargetFile(blendshape_name, skel.joints, xforms))
                                      @@ files
                          /\ pc' = At_("separate", pc.i)
                          /\ diag' = diag
                     ELSE /\ files' = files
                          /\ pc' = At_("raised", pc.i)
                          /\ diag' = "FileNotFoundError"
    /\ UNCHANGED <<mesh_verts, rig, weights_data, skel, binding, anim, saved,
                   modifier_data, blendshape_vals>>
    /\ UNCHANGED run
    /\ UNCHANGED pool
    /\ UNCHANGED build_state

\* separate_blendshape (176-203) for blend shape pc.i, with the call of
\* calculate_skeltarget_verts (67-132) it makes.  skinned_ok: what
\* ComputeSkinnedPoints returns.
SeparateBlendshape ==
    /\ pc.phase = "separate"
    /\ \E skinned_ok \in BOOLEAN :
         LET blendshape == blendshapes[pc.i]
             default_points == mesh_verts
             xforms == TransformsOfFile(files[blendshape.name])
             skel_deformation ==
                 applyJointAnimation(binding, skel, xforms, mesh_verts, skinned_ok)
             blendshape_offsets == blendshape.offsets
             blendshape_indices == blendshape.pointIndices
             corrected_offsets ==
                 CorrectedOffsets(blendshape_offsets, blendshape_indices,
                                  skel_deformation, default_points)
         IN  /\ blendshapes' = [blendshapes EXCEPT
                                  ![pc.i].offsets = corrected_offsets,
                                  ![pc.i].pointIndices = blendshape_indices,
                                  ![pc.i].separated = TRUE]
             /\ loc' = [fn |-> "separate_blendshape",
                        blendshape_name |-> blendshape.name,
                        default_points |-> default_points,
                        skel_deformation |-> skel_deformation,
                        blendshape_offsets |-> blendshape_offsets,
                        blendshape_indices |-> blendshape_indices,
                        skinned_ok |-> skinned_ok]
    \* line 130: the animation is put back to the rest pose
    /\ anim' = skel.restTransforms
    /\ pc' = IF pc.i < Len(blendshapes) THEN At_("to_skeltarget", pc.i + 1)
             ELSE At_("save", pc.i)
    /\ UNCHANGED <<mesh_verts, rig, weights_data, skel, binding, skeltargets,
                   files, diag, saved, modifier_data, blendshape_vals>>
    /\ UNCHANGED run
    /\ UNCHANGED pool
    /\ UNCHANGED build_state

\* Line 335: stage.GetRootLayer().Save().
Save ==
    /\ pc.phase = "save"
    /\ saved' = Some(blendshapes)
    /\ pc' = At_("done", pc.i)
    /\ UNCHANGED <<mesh_verts, rig, weights_data, skel, binding, blendshapes,
                   skeltargets, files, anim, loc, diag, modifier_data,
                   blendshape_vals>>
    /\ UNCHANGED run
    /\ UNCHANGED pool
    /\ UNCHANGED build_state

\* The script started again on the stage it saved: the loop begins anew on
\* the blend shapes (321-323), the skeltarget prims and files still there.
Rerun ==
    /\ pc.phase = "done"
    /\ run < MaxRuns
    /\ run' = run + 1
    /\ blendshapes' = saved.val
    /\ pc' = At_("to_skeltarget", 1)
    /\ loc' = NoCall
    /\ UNCHANGED <<mesh_verts, rig, weights_data, skel, binding, skeltargets,
                   files, anim, diag, saved, modifier_data, blendshape_vals>>
    /\ UNCHANGED build_state
    /\ UNCHANGED pool

Next == BuildSkeleton \/ BlendshapeToSkeltarget \/ SeparateBlendshape \/ Save \/ Rerun

Spec == Init /\ [][Next]_vars

-----------------------------------------------------------------------------
(* Claims about the rig build. *)

SkeletonBuilt == pc.phase # "build" /\ skel # NoSkeleton

\* C1: after create_skeleton, for every non-root joint J with parent P
\* (joints whose parent is the root included), bind(J) = bind(P) composed
\* with rest(J): bind(J).translation = bind(P).translation +
\* rest(J).translation.
C1_RestBindConsistency ==
    SkeletonBuilt =>
        \A i \in 1..Len(skel.joints) :
            ParentIndex(skel.joints, i) # 0 =>
                skel.bindTransforms[i] =
                    VAdd(skel.bindTransforms[ParentIndex(skel.joints, i)],
                         skel.restTransforms[i])

\* C2: the root joint's bind transform is the translation to the centroid of
\* the root's own head-vertex group, and the root's rest transform equals its
\* bind transform; head groups root={0,1}, child={2,3} over
\* [(0,0,0),(0,0,0),(0,1,0),(0,1,0)] give root bind (0,0,0).
C2_RootBindIsHeadCentroid ==
    SkeletonBuilt =>
        /\ skel.bindTransforms[1] = Mean(Take(mesh_verts, RootOf(rig).head))
        /\ skel.restTransforms[1] = skel.bindTransforms[1]

\* The raw weights the weights file gives vertex idx on the joints of the rig.
RawWeights(idx) ==
    LET pairs == Influences(skel.joint_names, weights_data, idx, 1)
    IN  [i \in 1..Len(pairs) |-> pairs[i][2]]

\* C7: the weight row of every vertex sums to 1 when the vertex has a
\* non-zero total raw weight and is all zero when its total raw weight is
\* zero; no entry is undefined or negative and the sum is never above 1.
C7_WeightRowsSumToZeroOrOne ==
    SkeletonBuilt =>
        \A v \in 1..Len(mesh_verts) :
            LET row == binding.joint_weights[v]
            IN  /\ \A i \in 1..Len(row) : ~IsNaN(row[i]) /\ row[i][1] >= 0
                /\ IF RSum(RawWeights(v - 1)) # Zero
                   THEN RSum(row) = One
                   ELSE \A i \in 1..Len(row) : row[i] = Zero

-----------------------------------------------------------------------------
(* Claims about the separation. *)

\* The blend shape as it was imported, before any separation.
Imported(name) == CHOOSE s \in {ShapeA, ShapeB, ShapeC, ShapeD} : s.name = name

\* The blend shape prim the last call worked on.
Current == blendshapes[CHOOSE i \in 1..Len(blendshapes) :
                           blendshapes[i].name = loc.blendshape_name]

\* separate_blendshape has returned, and the stage its run started from is
\* still known: the imported shapes in the first run, the saved stage later.
Separated == loc.fn = "separate_blendshape" /\ (run = 1 \/ pc.phase # "done")

\* The blend shape of the last call as it was when the run started.
Before ==
    IF run = 1 THEN Imported(loc.blendshape_name)
    ELSE saved.val[CHOOSE i \in 1..Len(saved.val) :
                       saved.val[i].name = loc.blendshape_name]

\* C3: separate_blendshape replaces the offsets so that new_offset[k] =
\* old_offset[k] - (skeleton_only_position[idx[k]] - base_position[idx[k]])
\* for every stored position k; the point-index list is the same before and
\* after and the offsets list keeps its length.
C3_CorrectedOffsets ==
    Separated =>
        LET old == Before
            idx == old.pointIndices
        IN  /\ Current.pointIndices = idx
            /\ Len(Current.offsets) = Len(old.offsets)
            /\ \A k \in 1..Len(idx) :
                   Current.offsets[k] =
                       VSub(old.offsets[k],
                            VSub(At(loc.skel_deformation, idx[k]),
                                 At(mesh_verts, idx[k])))

\* A separation whose skinning moved an affected vertex by a defined amount.
C3_Witness ==
    /\ Separated
    /\ loc.skinned_ok
    /\ \E k \in 1..Len(Current.offsets) :
           /\ ~VHasNaN(Current.offsets[k])
           /\ Current.offsets[k] # Before.offsets[k]

\* The head-vertex indices of the joints of the rig.
HeadVertices == UNION {Range(skel.customData[j]) : j \in DOMAIN skel.customData}

FiniteWeights ==
    \A v \in 1..Len(binding.joint_weights) :
        \A i \in 1..Len(binding.joint_weights[v]) : ~IsNaN(binding.joint_weights[v][i])

\* C4: for a blend shape whose affected indices contain no head-vertex index
\* of any joint, blendshape_to_skeltarget followed by separate_blendshape
\* leaves the offsets identical to the raw offsets (stated here for skin
\* bindings without undefined weights).
C4_NoSkeletalEffectRoundTrip ==
    (/\ Separated
     /\ FiniteWeights
     /\ Range(Current.pointIndices) \cap HeadVertices = {})
        => Current.offsets = Before.offsets

\* C5: when the skinning computation fails for a target, the separation of
\* that target aborts with a surfaced error and the blend shape keeps its
\* original offsets; separation never completes normally after it.
C5_SkinningFailureAborts ==
    (Separated /\ ~loc.skinned_ok) =>
        /\ pc.phase = "raised"
        /\ diag # "none"
        /\ ~Current.separated
        /\ Current.offsets = Before.offsets

HasAnimationPrim(b) == b.name \in DOMAIN skeltargets

HasRelationship(b) == b.skeltarget # <<>>

HasFile(b) == b.name \in DOMAIN files

\* No target is in the middle of its processing.
TargetEnded == pc.phase \in {"to_skeltarget", "save", "done", "raised"}

\* C6: whenever the processing of a target has ended, normally or by an
\* error, every blend shape has either its skeltarget record (animation prim,
\* relationship, file) and its corrected offsets, or none of them.
C6_AllOrNothingPerTarget ==
    TargetEnded =>
        \A i \in 1..Len(blendshapes) :
            LET b == blendshapes[i]
            IN  \/ HasAnimationPrim(b) /\ HasRelationship(b) /\ HasFile(b) /\ b.separated
                \/ ~HasAnimationPrim(b) /\ ~HasRelationship(b) /\ ~HasFile(b) /\ ~b.separated

\* blendshape_to_skeltarget has returned the joint transforms of a blend
\* shape that an earlier run of the script separated.
SeparatedAgain ==
    /\ run > 1
    /\ loc.fn = "blendshape_to_skeltarget"
    /\ "xforms" \in DOMAIN loc

\* C18: running the separator a second time on a blend shape that was
\* already separated, with its corrected offsets, yields a SkelTarget whose
\* per-joint translations are all zero: all of them the zero vector, or all
\* of them the translation of the joint on the mesh without the blend shape
\* (no joint is displaced).
C18_SecondSeparationIsNeutral ==
    SeparatedAgain =>
        \/ \A i \in 1..Len(loc.xforms) : loc.xforms[i] = VZero
        \/ \A i \in 1..Len(loc.xforms) :
               loc.xforms[i] = joints_from_points(skel, mesh_verts)[i]

-----------------------------------------------------------------------------
(* compute_blendshape_points as a function of the scene, the blend shape     *)
(* name and the weight.                                                      *)

QueryWeights == {Zero, Rat(1, 2), One}

QueryNames == {"a", "b", "c", "d"}

InitBlend ==
    /\ pc = At_("query", 0)
    /\ mesh_verts \in VertexArrays
    /\ blendshapes \in Scenes
    /\ rig = <<>>
    /\ weights_data = <<>>
    /\ skel = NoSkeleton
    /\ binding = NoBinding
    /\ skeltargets = <<>>
    /\ files = <<>>
    /\ anim = <<>>
    /\ loc = NoCall
    /\ diag = "none"
    /\ saved = None
    /\ run = 1
    /\ pool = NoPool
    /\ modifier_data = NoModifier
    /\ blendshape_vals = None
    /\ NoBuild

\* One call of compute_blendshape_points (236-273).
ComputeBlendshapePoints ==
    /\ pc.phase = "query"
    /\ \E blendshape_name \in QueryNames, weight \in QueryWeights :
         loc' = [fn |-> "compute_blendshape_points",
                 blendshape_name |-> blendshape_name,
                 weight |-> weight,
                 new_points |-> compute_blendshape_points(mesh_verts, blendshapes,
                                                          blendshape_name, weight)]
    /\ UNCHANGED <<pc, mesh_verts, rig, weights_data, skel, binding, blendshapes,
                   skeltargets, files, anim, diag, saved, modifier_data,
                   blendshape_vals>>
    /\ UNCHANGED run
    /\ UNCHANGED pool
    /\ UNCHANGED build_state

NextBlend == ComputeBlendshapePoints

SpecBlend == InitBlend /\ [][NextBlend]_vars

\* The call returned points for a blend shape that is bound to the body.
Computed ==
    /\ loc.fn = "compute_blendshape_points"
    /\ loc.new_points.has
    /\ \E i \in 1..Len(blendshapes) : blendshapes[i].name = loc.blendshape_name

\* C8: for a blend shape bound to the mesh, compute_blendshape_points returns
\* the base positions at weight 0, and at weight 1 base[i] + offset[k] for
\* every affected index i = idx[k] and base[j] for every other vertex j: no
\* other blend shape contributes.
C8_BlendShapeApplication ==
    Computed =>
        LET new_points == loc.new_points.val
            idx == Current.pointIndices
        IN  /\ loc.weight = Zero => new_points = mesh_verts
            /\ loc.weight = One =>
                 /\ \A k \in 1..Len(idx) :
                        At(new_points, idx[k]) =
                            VAdd(At(mesh_verts, idx[k]), Current.offsets[k])
                 /\ \A j \in 0..(Len(mesh_verts) - 1) :
                        j \notin Range(idx) => At(new_points, j) = At(mesh_verts, j)

\* A full-weight application in a scene with a second blend shape that moves
\* another vertex.
C8_Witness ==
    /\ Computed
    /\ loc.weight = One
    /\ loc.new_points.val # mesh_verts
    /\ \E i \in 1..Len(blendshapes) :
           Range(blendshapes[i].pointIndices) \ Range(Current.pointIndices) # {}

-----------------------------------------------------------------------------
(* ModifierIndex: scripts/buildusd/modifiers.py, scripts/buildusd/targets.py *)
(* and siborg/create/human/modifiers.py.  A string is the sequence of its    *)
(* characters.                                                               *)

MaxV == 4

Letters == {"a", "b", "c", "m", "n", "x"}

Digits == {"0", "1"}

\* Tf.MakeValidIdentifier: "_" for the empty string; otherwise every
\* character that is not a letter, a digit or "_" becomes "_", and so does a
\* first character that is a digit.
MakeValidIdentifier(str) ==
    IF str = <<>> THEN <<"_">>
    ELSE [k \in 1..Len(str) |->
            IF str[k] \in Letters \/ str[k] = "_" \/ (str[k] \in Digits /\ k > 1)
            THEN str[k] ELSE "_"]

\* TargetModifier.__init__ (scripts/buildusd/modifiers.py 49-63): the blend
\* names and the range of a modifier definition with a "target".
TargetModifier(definition) ==
    LET blend == MakeValidIdentifier(definition.target)
    IN  IF "min" \in DOMAIN definition /\ "max" \in DOMAIN definition
        THEN [blend |-> None,
              min_blend |-> Some(MakeValidIdentifier(blend \o <<"_">> \o definition.min)),
              max_blend |-> Some(MakeValidIdentifier(blend \o <<"_">> \o definition.max)),
              min_val |-> Num(-1),
              max_val |-> Num(1)]
        ELSE [blend |-> Some(blend),
              min_blend |-> None,
              max_blend |-> None,
              min_val |-> Num(0),
              max_val |-> Num(1)]

\* The record import_modifiers of scripts/buildusd/targets.py (86-95) stores:
\* the keys whose value is None are removed.
WithoutNone(data) ==
    LET keys == {k \in DOMAIN data :
                    k \in {"blend", "min_blend", "max_blend"} => data[k].has}
    IN  [k \in keys |-> data[k]]

\* A dict with one key.
Dict(key, value) == [kind |-> "dict", key |-> key, value |-> value]

Raised(exception) == [kind |-> exception]

\* The single blend with the upper bound not applied.
SingleBlend_NoUpperClamp(blend, v, min_val, max_val) ==
    IF RLess(min_val, v) THEN Dict(blend, v) ELSE Dict(blend, min_val)

\* Lines 25-32 of _get_blendshapes_for_target: a modifier with one blend.
SingleBlend(blend, v, min_val, max_val) ==
    IF RLess(min_val, v) /\ RLess(v, max_val) THEN Dict(blend, v)
    ELSE IF ~RLess(min_val, v) THEN Dict(blend, min_val)
    ELSE Dict(blend, max_val)

\* Lines 15-24 of _get_blendshapes_for_target: a modifier with two blends.
TwoBlends(data, v) ==
    IF RLess(Zero, v)
    THEN IF RLess(v, data.max_val) THEN Dict(data.max_blend, v)
         ELSE Dict(data.max_blend, data.max_val)
    ELSE IF RLess(data.min_val, v) THEN Dict(data.min_blend, RNeg(v))
         ELSE Dict(data.min_blend, data.min_val)

blendshapes_for_target(data, v) ==
    IF "max_blend" \in DOMAIN data /\ "min_blend" \in DOMAIN data
    THEN TwoBlends(data, v)
    ELSE IF "blend" \in DOMAIN data
    THEN SingleBlend(data.blend, v, data.min_val, data.max_val)
    ELSE Raised("ValueError")

\* get_blendshape_vals (siborg/create/human/modifiers.py 6-103).  The macrovar
\* branch defines its helpers and returns without calling them.
get_blendshape_vals(data, v) ==
    IF "macrovar" \in DOMAIN data THEN Raised("None")
    ELSE blendshapes_for_target(data, v)

\* The modifier definitions of a modifiers file.
Targets == { <<"a">>, <<"m", "-", "n">>, <<"1", "x">> }

Definitions ==
    {[target |-> t] : t \in Targets}
    \cup {[target |-> t, min |-> <<"a">>, max |-> <<"b">>] : t \in Targets}

\* The record of the macro variable "age" as MacroModifier.__init__ of
\* scripts/buildusd/modifiers.py (79-103) builds it.
MacroRecord ==
    [group |-> <<"M", "a">>, targetsprefix |-> <<>>,
     min_val |-> Zero, max_val |-> One,
     macrovar |-> <<"a", "g", "e">>, label |-> <<"A", "g", "e">>,
     parts |-> << [lowest |-> Zero, highest |-> Rat(1, 2), low |-> "baby", high |-> "young"],
                  [lowest |-> Rat(1, 2), highest |-> One, low |-> "young", high |-> "old"] >>,
     center |-> Rat(1, 2)]

\* The records the two importers store for them.
ModifierRecords ==
    {TargetModifier(d) : d \in Definitions}
    \cup {WithoutNone(TargetModifier(d)) : d \in Definitions}
    \cup {MacroRecord}

\* The values a slider model can hold: the halves in [-MaxV/2, MaxV/2].
SliderValues == {Rat(k, 2) : k \in (-MaxV)..MaxV}

InitModifier ==
    /\ pc = At_("ui", 0)
    /\ modifier_data \in ModifierRecords
    /\ blendshape_vals = None
    /\ loc = NoCall
    /\ mesh_verts = <<>>
    /\ blendshapes = <<>>
    /\ rig = <<>>
    /\ weights_data = <<>>
    /\ skel = NoSkeleton
    /\ binding = NoBinding
    /\ skeltargets = <<>>
    /\ files = <<>>
    /\ anim = <<>>
    /\ diag = "none"
    /\ saved = None
    /\ run = 1
    /\ pool = NoPool
    /\ NoBuild

\* The callback of a slider (ext_ui.py 82-84) with the value v of its model.
Callback ==
    /\ pc.phase = "ui"
    /\ \E v \in SliderValues :
         /\ blendshape_vals' = get_blendshape_vals(modifier_data, v)
         /\ loc' = [fn |-> "get_blendshape_vals", v |-> v]
    /\ UNCHANGED <<pc, mesh_verts, rig, weights_data, skel, binding, blendshapes,
                   skeltargets, files, anim, diag, saved, modifier_data>>
    /\ UNCHANGED run
    /\ UNCHANGED pool
    /\ UNCHANGED build_state

NextModifier == Callback

SpecModifier == InitModifier /\ [][NextModifier]_vars

RMin(x, y) == IF RLess(y, x) THEN y ELSE x

RMax(x, y) == IF RLess(x, y) THEN y ELSE x

Evaluated == loc.fn = "get_blendshape_vals"

\* A record with both a min-side and a max-side blend name.
TwoSided ==
    /\ "min_blend" \in DOMAIN modifier_data /\ modifier_data.min_blend.has
    /\ "max_blend" \in DOMAIN modifier_data /\ modifier_data.max_blend.has

\* A record in which only the single blend is defined.
OnlyBlend ==
    /\ DOMAIN modifier_data \cap {"blend", "min_blend", "max_blend"} = {"blend"}
    /\ modifier_data.blend.has

\* C9: for a two-sided TargetModifier (min_val = -1, max_val = 1) and every
\* input v: v > 0 gives the max-side blend the weight min(v, max_val), v <= 0
\* gives the min-side blend the weight min(-v, -min_val); the weight is in
\* [0, 1], and is 1 on the min-side shape for v <= min_val.
C9_TwoSidedWeights ==
    (Evaluated /\ TwoSided) =>
        /\ blendshape_vals.kind = "dict"
        /\ IF RLess(Zero, loc.v)
           THEN /\ blendshape_vals.key = modifier_data.max_blend
                /\ blendshape_vals.value = RMin(loc.v, modifier_data.max_val)
           ELSE /\ blendshape_vals.key = modifier_data.min_blend
                /\ blendshape_vals.value =
                       RMin(RNeg(loc.v), RNeg(modifier_data.min_val))
        /\ ~RLess(blendshape_vals.value, Zero)
        /\ ~RLess(One, blendshape_vals.value)

\* C10: for a TargetModifier with only a single blend defined and every input
\* v, the result gives that blend the weight clamp(v, min_val, max_val); with
\* min_val = 0 and max_val = 1, v = 1.5 gives 1.0 and v = -1 gives 0.0.
C10_SingleBlendClamp ==
    (Evaluated /\ OnlyBlend) =>
        /\ blendshape_vals.kind = "dict"
        /\ blendshape_vals.key = modifier_data.blend
        /\ blendshape_vals.value =
               RMax(modifier_data.min_val, RMin(loc.v, modifier_data.max_val))
        /\ loc.v = Rat(3, 2) => blendshape_vals.value = One
        /\ loc.v = Num(-1) => blendshape_vals.value = Zero

\* The single blend evaluated above its range.
C10_Witness ==
    /\ Evaluated
    /\ OnlyBlend
    /\ loc.v = Rat(3, 2)
    /\ blendshape_vals = Dict(modifier_data.blend, One)

\* A record of a macro variable, evaluated at a value inside one of its parts.
MacroEvaluated ==
    /\ Evaluated
    /\ "macrovar" \in DOMAIN modifier_data
    /\ \E k \in 1..Len(modifier_data.parts) :
          /\ ~RLess(loc.v, modifier_data.parts[k].lowest)
          /\ ~RLess(modifier_data.parts[k].highest, loc.v)

\* C19: get_blendshape_vals, given the record of a macro variable and a
\* value inside one of its parts, returns a weight assignment for the low
\* and high labels of such a part, weight_high = (value - lowest) /
\* (highest - lowest) and weight_low = 1 - weight_high; it does not return
\* an empty or absent result.
C19_MacrovarWeightsReturned ==
    MacroEvaluated =>
        /\ blendshape_vals.kind = "dict"
        /\ \E k \in 1..Len(modifier_data.parts) :
              LET part == modifier_data.parts[k]
                  weight_high == RDiv(RSub(loc.v, part.lowest),
                                      RSub(part.highest, part.lowest))
              IN  /\ ~RLess(loc.v, part.lowest)
                  /\ ~RLess(part.highest, loc.v)
                  /\ blendshape_vals.value =
                         [low |-> part.low, high |-> part.high,
                          weight_low |-> RSub(One, weight_high),
                          weight_high |-> weight_high]

-----------------------------------------------------------------------------
(* The macro-target weights of scripts/buildusd/macrotargets.py:             *)
(* calculate_weights_for_target, compose_filenames and normalize_weights,    *)
(* run one after the other on a table of macro variables.  A Python dict is  *)
(* a sequence of entries in insertion order.                                 *)

\* The longest list of parts of a macro variable.
MaxParts == 2

\* Python's <= on floats.
RLeq(x, y) == ~IsNaN(x) /\ ~IsNaN(y) /\ x[1] * y[2] <= y[1] * x[2]

Part(lowest, highest, low, high) ==
    [lowest |-> lowest, highest |-> highest, low |-> low, high |-> high]

RECURSIVE MinOf(_)
MinOf(s) == IF Len(s) = 1 THEN s[1] ELSE RMin(s[1], MinOf(Tail(s)))

RECURSIVE MaxOf(_)
MaxOf(s) == IF Len(s) = 1 THEN s[1] ELSE RMax(s[1], MaxOf(Tail(s)))

\* calculate_center_of_range (59-62): min() and max() of an empty sequence
\* raise ValueError.
calculate_center_of_range(parts) ==
    IF parts = <<>> THEN Raised("ValueError")
    ELSE Some(RDiv(RAdd(MinOf([k \in 1..Len(parts) |-> parts[k].lowest]),
                        MaxOf([k \in 1..Len(parts) |-> parts[k].highest])),
                   Num(2)))

\* calculate_weight_for_part (65-74).
calculate_weight_for_part(part, value) ==
    IF RLeq(part.lowest, value) /\ RLeq(value, part.highest)
    THEN LET range_span == RSub(part.highest, part.lowest)
             weight_high == RDiv(RSub(value, part.lowest), range_span)
         IN  IF range_span = Zero THEN None
             ELSE Some([low |-> part.low, high |-> part.high,
                        weight_low |-> RSub(One, weight_high),
                        weight_high |-> weight_high])
    ELSE None

\* Lines 81-85: the weight of the first part that gives one.
RECURSIVE FirstWeight(_, _)
FirstWeight(parts, value) ==
    IF parts = <<>> THEN None
    ELSE LET weight == calculate_weight_for_part(Head(parts), value)
         IN  IF weight.has THEN weight ELSE FirstWeight(Tail(parts), value)

\* calculate_weights_for_target (77-86).  The default of values.get is
\* evaluated before the lookup, for every target.
RECURSIVE calculate_weights_for_target(_, _)
calculate_weights_for_target(macrotargets, values) ==
    IF macrotargets = <<>> THEN [kind |-> "dict", entries |-> <<>>]
    ELSE LET target == Head(macrotargets).target
             parts == Head(macrotargets).parts
             center == calculate_center_of_range(parts)
             value == IF target \in DOMAIN values THEN values[target]
                      ELSE center.val
             weight == FirstWeight(parts, value)
             rest == calculate_weights_for_target(Tail(macrotargets), values)
         IN  IF "kind" \in DOMAIN center THEN center
             ELSE IF rest.kind # "dict" THEN rest
             ELSE IF weight.has
             THEN [rest EXCEPT !.entries = @ @@ (target :> weight.val)]
             ELSE rest

\* "-".join(parts) + ".target", as the sequence of its pieces.
RECURSIVE Join(_)
Join(parts) ==
    IF parts = <<>> THEN <<>>
    ELSE IF Len(parts) = 1 THEN <<parts[1]>>
    ELSE <<parts[1], "-">> \o Join(Tail(parts))

\* Lines 92-106 for one combination: the file name and the weight.
RECURSIVE ComboLabels(_, _)
ComboLabels(combo_parts, weights) ==
    IF combo_parts = <<>> THEN <<>>
    ELSE LET part == Head(combo_parts)
             weight_info == weights[part]
         IN  <<IF part \notin DOMAIN weights THEN "unknown"
               ELSE IF RLess(weight_info.weight_high, weight_info.weight_low)
               THEN weight_info.low ELSE weight_info.high>>
             \o ComboLabels(Tail(combo_parts), weights)

\* The product taken over the smaller of the two weights.
RECURSIVE ComboWeight_MinSide(_, _)
ComboWeight_MinSide(combo_parts, weights) ==
    IF combo_parts = <<>> THEN One
    ELSE LET part == Head(combo_parts)
             rest == ComboWeight_MinSide(Tail(combo_parts), weights)
         IN  IF part \in DOMAIN weights
             THEN RMul(RMin(weights[part].weight_low, weights[part].weight_high), rest)
             ELSE rest

RECURSIVE ComboWeight(_, _)
ComboWeight(combo_parts, weights) ==
    IF combo_parts = <<>> THEN One
    ELSE LET part == Head(combo_parts)
             rest == ComboWeight(Tail(combo_parts), weights)
         IN  IF part \in DOMAIN weights
             THEN RMul(RMax(weights[part].weight_low, weights[part].weight_high), rest)
             ELSE rest

Filename(combo_parts, weights) == Join(ComboLabels(combo_parts, weights)) \o <<".target">>

\* compose_filenames (89-108): a later combination of the same file name
\* replaces the weight of an earlier one.
RECURSIVE compose_filenames(_, _)
compose_filenames(combinations, weights) ==
    IF combinations = <<>> THEN <<>>
    ELSE LET last == combinations[Len(combinations)]
         IN  (Filename(last.parts, weights) :> ComboWeight(last.parts, weights))
             @@ compose_filenames(SubSeq(combinations, 1, Len(combinations) - 1), weights)

\* sum(filenames.values()).
RECURSIVE DictSum(_)
DictSum(d) ==
    IF DOMAIN d = {} THEN Zero
    ELSE LET k == CHOOSE x \in DOMAIN d : TRUE
         IN  RAdd(d[k], DictSum([x \in DOMAIN d \ {k} |-> d[x]]))

\* normalize_weights (111-118).
normalize_weights(filenames) ==
    LET total_weight == DictSum(filenames)
    IN  IF total_weight = Zero THEN filenames
        ELSE [key \in DOMAIN filenames |-> RDiv(filenames[key], total_weight)]

(* The tables the three functions are run on. *)

MacroParts ==
    { Part(Zero, Rat(1, 2), "baby", "young"),
      Part(Rat(1, 2), One, "young", "old"),
      Part(Zero, One, "min", "max"),
      Part(Rat(1, 2), Rat(1, 2), "mid", "mid") }

PartLists == UNION {[1..n -> MacroParts] : n \in 0..MaxParts}

GenderLists == { <<Part(Zero, One, "female", "male")>>, <<>> }

MacroVar(target, parts) == [target |-> target, parts |-> parts]

Macrotargets ==
    {<<MacroVar("age", p)>> : p \in PartLists}
    \cup {<<MacroVar("age", p), MacroVar("gender", g)>> :
              p \in PartLists, g \in GenderLists}

AgeValues == {Zero, Rat(1, 4), Rat(1, 2), Rat(3, 4), One, Rat(3, 2)}

\* The values dict: a value for some of the variables.
MacroValues ==
    {<<>>} \cup {("age" :> a) : a \in AgeValues}
    \cup {("age" :> a) @@ ("gender" :> g) : a \in AgeValues, g \in {Rat(1, 4), One}}

Combo(name, parts) == [name |-> name, parts |-> parts]

Combinations ==
    { <<>>,
      <<Combo("c1", <<"age", "gender">>)>>,
      <<Combo("c1", <<"age">>), Combo("c2", <<"gender">>)>>,
      <<Combo("c1", <<"age", "gender">>), Combo("c2", <<"gender", "age">>),
        Combo("c3", <<"race">>)>>,
      <<Combo("c1", <<"age">>), Combo("c2", <<"age">>)>> }

InitMacro ==
    /\ pc = At_("weights", 0)
    /\ loc = NoCall
    /\ modifier_data = NoModifier
    /\ blendshape_vals = None
    /\ mesh_verts = <<>>
    /\ blendshapes = <<>>
    /\ rig = <<>>
    /\ weights_data = <<>>
    /\ skel = NoSkeleton
    /\ binding = NoBinding
    /\ skeltargets = <<>>
    /\ files = <<>>
    /\ anim = <<>>
    /\ diag = "none"
    /\ saved = None
    /\ run = 1
    /\ pool = NoPool
    /\ NoBuild

\* One call of calculate_weights_for_target (77-86).
CalculateWeightsForTarget ==
    /\ pc.phase = "weights"
    /\ \E macrotargets \in Macrotargets, values \in MacroValues :
         LET weights == calculate_weights_for_target(macrotargets, values)
         IN  /\ loc' = [fn |-> "calculate_weights_for_target",
                        macrotargets |-> macrotargets,
                        values |-> values,
                        weights |-> weights]
             /\ IF weights.kind = "dict"
                THEN /\ pc' = At_("compose", 0)
                     /\ diag' = diag
                ELSE /\ pc' = At_("raised", 0)
                     /\ diag' = weights.kind
    /\ UNCHANGED <<mesh_verts, rig, weights_data, skel, binding, blendshapes,
                   skeltargets, files, anim, saved, modifier_data,
                   blendshape_vals>>
    /\ UNCHANGED run
    /\ UNCHANGED pool
    /\ UNCHANGED build_state

\* One call of compose_filenames (89-108) with the weights just computed.
ComposeFilenames ==
    /\ pc.phase = "compose"
    /\ \E combinations \in Combinations :
         loc' = [fn |-> "compose_filenames",
                 combinations |-> combinations,
                 weights |-> loc.weights.entries,
                 filenames |-> compose_filenames(combinations, loc.weights.entries)]
    /\ pc' = At_("normalize", 0)
    /\ UNCHANGED <<mesh_verts, rig, weights_data, skel, binding, blendshapes,
                   skeltargets, files, anim, diag, saved, modifier_data,
                   blendshape_vals>>
    /\ UNCHANGED run
    /\ UNCHANGED pool
    /\ UNCHANGED build_state

\* One call of normalize_weights (111-118) on the composed file names.
NormalizeWeights ==
    /\ pc.phase = "normalize"
    /\ loc' = [fn |-> "normalize_weights",
               combinations |-> loc.combinations,
               weights |-> loc.weights,
               composed |-> loc.filenames,
               filenames |-> normalize_weights(loc.filenames)]
    /\ pc' = At_("done", 0)
    /\ UNCHANGED <<mesh_verts, rig, weights_data, skel, binding, blendshapes,
                   skeltargets, files, anim, diag, saved, modifier_data,
                   blendshape_vals>>
    /\ UNCHANGED run
    /\ UNCHANGED pool
    /\ UNCHANGED build_state

NextMacro == CalculateWeightsForTarget \/ ComposeFilenames \/ NormalizeWeights

SpecMacro == InitMacro /\ [][NextMacro]_vars

\* The value the call used for macro variable k, when the caller gave one.
GivenValue(k) == loc.values[loc.macrotargets[k].target]

\* The parts of macro variable k whose range contains the given value.
Containing(k) ==
    {i \in 1..Len(loc.macrotargets[k].parts) :
        /\ RLeq(loc.macrotargets[k].parts[i].lowest, GivenValue(k))
        /\ RLeq(GivenValue(k), loc.macrotargets[k].parts[i].highest)}

FirstContaining(k) ==
    loc.macrotargets[k].parts[CHOOSE i \in Containing(k) : \A j \in Containing(k) : i <= j]

\* C11: calculate_weights_for_target raises no error, and for every macro
\* variable and every value given for it: the entry of the variable is that
\* of the first part, in list order, whose range [lowest, highest] contains
\* the value, with weight_high = (value - lowest) / (highest - lowest) and
\* weight_low = 1 - weight_high on that part's labels, both in [0, 1] and of
\* sum 1; when no part contains the value the variable has no entry.
C11_FirstContainingPart ==
    loc.fn = "calculate_weights_for_target" =>
        /\ loc.weights.kind = "dict"
        /\ \A k \in 1..Len(loc.macrotargets) :
              LET target == loc.macrotargets[k].target
                  entry == loc.weights.entries[target]
                  part == FirstContaining(k)
              IN  target \in DOMAIN loc.values =>
                    IF Containing(k) = {}
                    THEN target \notin DOMAIN loc.weights.entries
                    ELSE /\ target \in DOMAIN loc.weights.entries
                         /\ entry.low = part.low
                         /\ entry.high = part.high
                         /\ entry.weight_high =
                                RDiv(RSub(GivenValue(k), part.lowest),
                                     RSub(part.highest, part.lowest))
                         /\ entry.weight_low = RSub(One, entry.weight_high)
                         /\ RLeq(Zero, entry.weight_low) /\ RLeq(entry.weight_low, One)
                         /\ RLeq(Zero, entry.weight_high) /\ RLeq(entry.weight_high, One)
                         /\ RAdd(entry.weight_low, entry.weight_high) = One

\* The batch was composed from at least one combination and normalized.
Normalized == loc.fn = "normalize_weights" /\ loc.combinations # <<>>

\* The dominant-side weight of a macro variable that has an entry.
Dominant(part) ==
    IF RLess(loc.weights[part].weight_low, loc.weights[part].weight_high)
    THEN loc.weights[part].weight_high ELSE loc.weights[part].weight_low

\* The product of the dominant-side weights of the first n variables of
\* combination c that have an entry in the weights table.
RECURSIVE DominantProduct(_, _)
DominantProduct(c, n) ==
    IF n = 0 THEN One
    ELSE IF loc.combinations[c].parts[n] \in DOMAIN loc.weights
    THEN RMul(DominantProduct(c, n - 1), Dominant(loc.combinations[c].parts[n]))
    ELSE DominantProduct(c, n - 1)

\* The combinations the composite name comes from.
NamedBy(name) ==
    {c \in 1..Len(loc.combinations) :
        Filename(loc.combinations[c].parts, loc.weights) = name}

-----------------------------------------------------------------------------
(* The target importer of scripts/buildusd/targets.py: import_targets walks  *)
(* the targets directory and calls mhtarget_to_blendshapes on every .target  *)
(* file.  The stage holds the "targets" container, its groups, the blend     *)
(* shape prims by path <<group, name>>, and the sub-meshes of the human with *)
(* their skel:blendShapes attribute and skel:blendShapeTargets relationship. *)

\* The most files a targets directory of the model holds.
MaxFiles == 3

Chars(a, b, c) == <<a, b, c>>

Row(index, y) == [index |-> index, offset |-> Vec(0, y, 0)]

Rows(rows) == [kind |-> "rows", rows |-> rows]

\* A file of the walk: its directory below "targets" (the group and the
\* sub-directories), its base name, its extension and its content.
TargetFile(group, prefix, basename, ext, content) ==
    [group |-> group, prefix |-> prefix, basename |-> basename, ext |-> ext,
     content |-> content]

\* np.loadtxt under warnings.simplefilter("error") (138-146): a file without
\* data gives the UserWarning "input contained no data", raised as an
\* exception; text that is no number gives ValueError.
loadtxt(content) ==
    IF content.kind = "empty" THEN Raised("Warning")
    ELSE IF content.kind = "malformed" THEN Raised("ValueError")
    ELSE [kind |-> "array", ndim |-> IF Len(content.rows) = 1 THEN 1 ELSE 2,
          rows |-> content.rows]

\* Lines 132-137: the name of the group and of the blend shape.
GroupName(file) == MakeValidIdentifier(file.group)

TargetName(file) ==
    MakeValidIdentifier(IF file.prefix = <<>> THEN file.basename
                        ELSE file.prefix \o <<"_">> \o file.basename)

\* A printed line.
Line(kind, name, mesh) == [kind |-> kind, name |-> name, mesh |-> mesh]

\* AddTarget on a relationship: a target path is listed once.
AddTarget(targets, path) ==
    IF path \in Range(targets) THEN targets ELSE Append(targets, path)

IndexStart(mesh) == -SeqMax([k \in 1..Len(mesh.faceVertexIndices) |-> -mesh.faceVertexIndices[k]])

IndexEnd(mesh) == SeqMax(mesh.faceVertexIndices) + 1

\* Line 166: some changed index is inside the range of the mesh.
Affected(mesh, changed_indices) ==
    \E k \in 1..Len(changed_indices) :
        changed_indices[k] >= IndexStart(mesh) /\ changed_indices[k] < IndexEnd(mesh)

\* Lines 167-191 for one mesh: the mesh as the loop body leaves it, and the
\* lines it prints.
BindMesh(mesh, path, changed_indices) ==
    LET target_name == path[2]
        targets == AddTarget(mesh.targets, path)
        existing_blendshapes == mesh.blendShapes
        bound_blendshapes == [k \in 1..Len(targets) |-> targets[k][2]]
        updated == Append(existing_blendshapes, target_name)
        hit == Line("targets mesh", target_name, mesh.name)
    IN  IF ~Affected(mesh, changed_indices) THEN [mesh |-> mesh, out |-> <<>>]
        ELSE IF target_name \in Range(existing_blendshapes)
        THEN [mesh |-> [mesh EXCEPT !.targets = targets],
              out |-> <<hit, Line("already exists", target_name, mesh.name)>>]
        ELSE [mesh |-> [mesh EXCEPT !.targets = targets, !.blendShapes = updated],
              out |-> IF Len(updated) # Len(bound_blendshapes)
                      THEN <<hit, Line("exist but are not bound", target_name, mesh.name),
                             Line("are bound but do not exist", target_name, mesh.name)>>
                      ELSE <<hit>>]

RECURSIVE Flatten(_)
Flatten(seqs) == IF seqs = <<>> THEN <<>> ELSE Head(seqs) \o Flatten(Tail(seqs))

\* Lines 152-156: UsdSkel.BlendShape.Define gives the prim at the path, new
\* or not, and its two attributes are set.
DefineBlendShape(prims, path, offsets, indices) ==
    (path :> [offsets |-> offsets, pointIndices |-> indices]) @@ prims

\* mhtarget_to_blendshapes (100-191): the stage as the call leaves it, the
\* lines it prints and the exception it ends with, if any.  raw[:, 0] of the
\* one-dimensional array loadtxt gives for a single row is an IndexError.
mhtarget_to_blendshapes(st, file) ==
    LET st1 == [st EXCEPT !.targets = TRUE]
        group_name == GroupName(file)
        target_name == TargetName(file)
        raw == loadtxt(file.content)
        changed_indices == [k \in 1..Len(raw.rows) |-> raw.rows[k].index]
        changed_offsets == [k \in 1..Len(raw.rows) |-> raw.rows[k].offset]
        path == <<group_name, target_name>>
        bound == [k \in 1..Len(st.meshes) |-> BindMesh(st.meshes[k], path, changed_indices)]
    IN  IF raw.kind = "Warning"
        THEN [stage |-> st1, out |-> <<Line("Warning", target_name, "")>>, exc |-> "none"]
        ELSE IF raw.kind = "ValueError"
        THEN [stage |-> st1, out |-> <<>>, exc |-> "ValueError"]
        ELSE IF raw.ndim = 1
        THEN [stage |-> st1, out |-> <<>>, exc |-> "IndexError"]
        ELSE [stage |-> [st1 EXCEPT
                           !.groups = @ \cup {group_name},
                           !.prims = DefineBlendShape(@, path, changed_offsets, changed_indices),
                           !.meshes = [k \in 1..Len(st.meshes) |-> bound[k].mesh]],
              out |-> Flatten([k \in 1..Len(st.meshes) |-> bound[k].out]),
              exc |-> "none"]

(* The human and the directories of the model. *)

Mesh(name, faceVertexIndices) ==
    [name |-> name, faceVertexIndices |-> faceVertexIndices,
     blendShapes |-> <<>>, targets |-> <<>>]

\* The sub-meshes: the body on the vertices 0..3, a helper on 4..6.
HumanMeshes == << Mesh("body", <<0, 1, 2, 1, 2, 3>>), Mesh("helper", <<4, 5, 6>>) >>

Armslegs == <<"a", "r", "m">>

Legs == <<"l", "e", "g">>

TargetFiles ==
    { TargetFile(Armslegs, <<>>, Chars("a", "-", "b"), ".target", Rows(<<Row(1, 1), Row(2, 1)>>)),
      TargetFile(Armslegs, <<>>, Chars("a", "_", "b"), ".target", Rows(<<Row(2, -1), Row(5, -1)>>)),
      TargetFile(Legs, <<>>, Chars("a", "_", "b"), ".target", Rows(<<Row(1, 2), Row(3, 2)>>)),
      TargetFile(Armslegs, <<>>, Chars("f", "a", "r"), ".target", Rows(<<Row(9, 1), Row(10, 1)>>)),
      TargetFile(Armslegs, <<>>, Chars("e", "m", "p"), ".target", [kind |-> "empty"]),
      TargetFile(Armslegs, <<>>, Chars("b", "a", "d"), ".target", [kind |-> "malformed"]),
      TargetFile(Armslegs, <<>>, Chars("o", "n", "e"), ".target", Rows(<<Row(4, 1)>>)),
      TargetFile(Armslegs, <<>>, Chars("t", "x", "t"), ".txt", [kind |-> "malformed"]) }

\* A directory: files of different names, in the order of the walk.
Directories ==
    {d \in UNION {[1..n -> TargetFiles] : n \in 1..MaxFiles} :
        \A i, j \in 1..Len(d) : i # j => d[i] # d[j]}

InitTargets ==
    /\ pc = At_("import", 1)
    /\ targets_dir \in Directories
    /\ stage = [NoStage EXCEPT !.meshes = HumanMeshes]
    /\ log = <<>>
    /\ macrodata = <<>>
    /\ loc = NoCall
    /\ modifier_data = NoModifier
    /\ blendshape_vals = None
    /\ mesh_verts = <<>>
    /\ blendshapes = <<>>
    /\ rig = <<>>
    /\ weights_data = <<>>
    /\ skel = NoSkeleton
    /\ binding = NoBinding
    /\ skeltargets = <<>>
    /\ files = <<>>
    /\ anim = <<>>
    /\ diag = "none"
    /\ saved = None
    /\ run = 1
    /\ pool = NoPool

\* One round of the loop of import_targets (194-202), on file pc.i.  loc
\* keeps the stage the round started from and the lines the call printed.
ImportTarget ==
    /\ pc.phase = "import"
    /\ LET file == targets_dir[pc.i]
           r == mhtarget_to_blendshapes(stage, file)
           next == IF pc.i < Len(targets_dir) THEN At_("import", pc.i + 1)
                   ELSE At_("imported", pc.i)
       IN  /\ loc' = [fn |-> "import_targets", i |-> pc.i, before |-> stage,
                        out |-> IF file.ext = ".target" THEN r.out ELSE <<>>]
           /\ IF file.ext # ".target"
              THEN /\ pc' = next
                   /\ UNCHANGED <<stage, log, diag>>
              ELSE /\ stage' = r.stage
                   /\ log' = log \o <<Line("Importing", file.basename, "")>> \o r.out
                   /\ IF r.exc = "none"
                      THEN pc' = next /\ diag' = diag
                      ELSE pc' = At_("raised", pc.i) /\ diag' = r.exc
    /\ UNCHANGED <<mesh_verts, rig, weights_data, skel, binding, blendshapes,
                   skeltargets, files, anim, saved, modifier_data,
                   blendshape_vals, macrodata, targets_dir>>
    /\ UNCHANGED run
    /\ UNCHANGED pool

NextTargets == ImportTarget

SpecTargets == InitTargets /\ [][NextTargets]_vars

\* The round just made was on a .target file.
Round == loc.fn = "import_targets" /\ targets_dir[loc.i].ext = ".target"

RoundFile == targets_dir[loc.i]

RoundPath == <<GroupName(RoundFile), TargetName(RoundFile)>>

\* The loop went on to the next file, or ended, without an exception.
Proceeds ==
    /\ diag = "none"
    /\ pc = IF loc.i < Len(targets_dir) THEN At_("import", loc.i + 1)
            ELSE At_("imported", loc.i)

\* The file has rows of numbers, none of them inside a sub-mesh.
Unbound ==
    /\ RoundFile.content.kind = "rows"
    /\ Len(RoundFile.content.rows) > 1
    /\ \A m \in 1..Len(stage.meshes) :
          ~Affected(stage.meshes[m],
                    [k \in 1..Len(RoundFile.content.rows) |-> RoundFile.content.rows[k].index])

\* C13: importing a target file whose changed indices are outside the index
\* range of every sub-mesh creates no binding, prints exactly one diagnostic
\* for the unbound target, leaves no blend shape of the target registered on
\* the stage, and the import goes on with the remaining targets.
C13_UnboundTargetSkipped ==
    (Round /\ Unbound) =>
        /\ stage.meshes = loc.before.meshes
        /\ Len(loc.out) = 1
        /\ RoundPath \notin DOMAIN stage.prims
        /\ Proceeds

\* C14: a target file that is empty or malformed is skipped with a logged
\* diagnostic: no blend shape is registered for it, no error leaves
\* import_targets, and the import goes on with the other files.
C14_EmptyOrMalformedSkipped ==
    (Round /\ RoundFile.content.kind \in {"empty", "malformed"}) =>
        /\ stage.prims = loc.before.prims
        /\ stage.meshes = loc.before.meshes
        /\ Len(loc.out) = 1
        /\ Proceeds

\* The target of the round was registered on a sub-mesh before the round,
\* with other indices or offsets.
Reimported ==
    /\ RoundFile.content.kind = "rows"
    /\ Len(RoundFile.content.rows) > 1
    /\ RoundPath \in DOMAIN loc.before.prims
    /\ \E m \in 1..Len(loc.before.meshes) :
          RoundPath[2] \in Range(loc.before.meshes[m].blendShapes)
    /\ \/ loc.before.prims[RoundPath].pointIndices #
              [k \in 1..Len(RoundFile.content.rows) |-> RoundFile.content.rows[k].index]
       \/ loc.before.prims[RoundPath].offsets #
              [k \in 1..Len(RoundFile.content.rows) |-> RoundFile.content.rows[k].offset]

\* C15: importing again, with other indices or offsets, a target whose name
\* is registered on a sub-mesh keeps the first registration: the offsets and
\* point indices of the blend shape are unchanged, the blend shape names of
\* every sub-mesh list the name exactly once, and a conflict is reported.
C15_FirstRegistrationKept ==
    (Round /\ Reimported) =>
        /\ stage.prims[RoundPath] = loc.before.prims[RoundPath]
        /\ \A m \in 1..Len(stage.meshes) :
              Cardinality({k \in 1..Len(stage.meshes[m].blendShapes) :
                              stage.meshes[m].blendShapes[k] = RoundPath[2]}) <= 1
        /\ \E m \in 1..Len(stage.meshes) :
              Cardinality({k \in 1..Len(stage.meshes[m].blendShapes) :
                              stage.meshes[m].blendShapes[k] = RoundPath[2]}) = 1
        /\ \E k \in 1..Len(loc.out) : loc.out[k].kind = "already exists"

-----------------------------------------------------------------------------
(* build_skeleton on rig files that are not well formed. *)

\* Rig files with a bone whose parent is no bone of the file, with a head
\* vertex at the vertex count or below 0, and without a parentless bone.
MalformedRigs ==
    { << Bone("root", NoParent, <<0>>), Bone("spine", "root", <<1>>),
         Bone("arm", "ghost", <<2>>) >>,
      << Bone("root", NoParent, <<0>>), Bone("spine", "root", <<NumVerts>>) >>,
      << Bone("root", NoParent, <<0>>), Bone("spine", "root", <<-1>>) >>,
      << Bone("root", NoParent, <<0>>), Bone("spine", "root", <<1>>),
         Bone("arm", "ghost", <<NumVerts + 1>>) >>,
      << Bone("spine", "ghost", <<1>>) >> }

InitRig ==
    /\ pc = At_("build", 0)
    /\ mesh_verts \in VertexArrays
    /\ rig \in Rigs \cup MalformedRigs
    /\ weights_data \in WeightTables
    /\ blendshapes = <<>>
    /\ skel = NoSkeleton
    /\ binding = NoBinding
    /\ skeltargets = <<>>
    /\ files = <<>>
    /\ anim = <<>>
    /\ loc = NoCall
    /\ diag = "none"
    /\ saved = None
    /\ run = 1
    /\ pool = NoPool
    /\ modifier_data = NoModifier
    /\ blendshape_vals = None
    /\ NoBuild

NextRig == BuildSkeleton

SpecRig == InitRig /\ [][NextRig]_vars

BoneNames == {rig[k].name : k \in 1..Len(rig)}

MissingParent ==
    \E k \in 1..Len(rig) : rig[k].parent # NoParent /\ rig[k].parent \notin BoneNames

HeadOutOfRange ==
    \E k \in 1..Len(rig) : \E h \in 1..Len(rig[k].head) :
        rig[k].head[h] < 0 \/ rig[k].head[h] >= Len(mesh_verts)

\* C16: rig building fails with an error and produces no rig whenever some
\* bone references a parent name that is not in the bone set, or some head
\* vertex index of a bone is below 0 or at or above the vertex count.
C16_MalformedRigFails ==
    (pc.phase # "build" /\ (MissingParent \/ HeadOutOfRange)) =>
        /\ diag # "none"
        /\ skel = NoSkeleton

-----------------------------------------------------------------------------
(* The modifier importer of scripts/buildusd/modifiers.py: the module global *)
(* macrodata, import_macrodata_mappings, the MacroModifier constructor and   *)
(* import_modifiers.  Strings are sequences of characters.                   *)

\* The letters of the model in their two cases.
CaseTable == << <<"A", "a">>, <<"E", "e">>, <<"F", "f">>, <<"G", "g">>,
                <<"M", "m">>, <<"N", "n">>, <<"O", "o">>, <<"U", "u">> >>

LowerChar(c) ==
    IF \E k \in 1..Len(CaseTable) : CaseTable[k][1] = c
    THEN CaseTable[CHOOSE k \in 1..Len(CaseTable) : CaseTable[k][1] = c][2]
    ELSE c

UpperChar(c) ==
    IF \E k \in 1..Len(CaseTable) : CaseTable[k][2] = c
    THEN CaseTable[CHOOSE k \in 1..Len(CaseTable) : CaseTable[k][2] = c][1]
    ELSE c

\* str.lower() and str.capitalize().
Lower(str) == [k \in 1..Len(str) |-> LowerChar(str[k])]

Capitalize(str) ==
    [k \in 1..Len(str) |-> IF k = 1 THEN UpperChar(str[k]) ELSE LowerChar(str[k])]

\* str.split(sep): the pieces between the separators.
RECURSIVE Split(_, _)
Split(str, sep) ==
    IF sep \notin Range(str) THEN <<str>>
    ELSE LET k == CHOOSE i \in 1..Len(str) :
                     str[i] = sep /\ \A j \in 1..(i - 1) : str[j] # sep
         IN  <<SubSeq(str, 1, k - 1)>> \o Split(SubSeq(str, k + 1, Len(str)), sep)

\* sep.join(words).
RECURSIVE JoinWith(_, _)
JoinWith(sep, words) ==
    IF words = <<>> THEN <<>>
    ELSE IF Len(words) = 1 THEN words[1]
    ELSE words[1] \o <<sep>> \o JoinWith(sep, Tail(words))

\* An object the constructor returned, with its data dict.
Built(data) == [kind |-> "modifier", data |-> data]

\* The constructor without the test of the macrodata table.
MacroModifier_NotTested(group, definition, table) ==
    LET base == [group |-> Split(group, "-")[1],
                 targetsprefix |-> IF "-" \in Range(group) THEN Split(group, "-")[2]
                                   ELSE <<>>,
                 min_val |-> Zero, max_val |-> One]
        macrovar == Lower(definition.macrovar)
        macrovar_data == table.macrotargets[macrovar]
        center == calculate_center_of_range(macrovar_data.parts)
    IN  IF "macrovar" \notin DOMAIN definition THEN Built(<<>>)
        ELSE IF "modifierType" \in DOMAIN definition
                /\ definition.modifierType = "EthnicModifier"
        THEN Built(base @@ [label |-> definition.macrovar, parts |-> None, center |-> None])
        ELSE IF "macrotargets" \notin DOMAIN table THEN Raised("KeyError")
        ELSE IF macrovar \notin DOMAIN table.macrotargets THEN Raised("KeyError")
        ELSE IF "kind" \in DOMAIN center THEN center
        ELSE Built(base @@ [macrovar |-> macrovar, label |-> macrovar_data.label,
                            parts |-> Some(macrovar_data.parts), center |-> center])

\* MacroModifier.__init__ (66-103) with the module global macrodata as
\* table: an empty dict is not true.
MacroModifier(group, definition, table) ==
    IF table = <<>> THEN Raised("ValueError")
    ELSE LET base == [group |-> Split(group, "-")[1],
                      targetsprefix |-> IF "-" \in Range(group) THEN Split(group, "-")[2]
                                        ELSE <<>>,
                      min_val |-> Zero, max_val |-> One]
             macrovar == Lower(definition.macrovar)
             macrovar_data == table.macrotargets[macrovar]
             center == calculate_center_of_range(macrovar_data.parts)
         IN  IF "macrovar" \notin DOMAIN definition THEN Built(<<>>)
             ELSE IF "modifierType" \in DOMAIN definition
                     /\ definition.modifierType = "EthnicModifier"
             THEN Built(base @@ [label |-> definition.macrovar, parts |-> None,
                                 center |-> None])
             ELSE IF "macrotargets" \notin DOMAIN table THEN Raised("KeyError")
             ELSE IF macrovar \notin DOMAIN table.macrotargets THEN Raised("KeyError")
             ELSE IF "kind" \in DOMAIN center THEN center
             ELSE Built(base @@ [macrovar |-> macrovar, label |-> macrovar_data.label,
                                 parts |-> Some(macrovar_data.parts),
                                 center |-> center])

\* Lines 34-46 of TargetModifier.__init__: the label of a target.
TargetLabel(group, target) ==
    LET tlabel == Split(target, "-")
        cut == IF "|" \in Range(tlabel[Len(tlabel)])
               THEN SubSeq(tlabel, 1, Len(tlabel) - 1) ELSE tlabel
        label == IF Len(cut) > 1 /\ cut[1] = group THEN Tail(cut) ELSE cut
    IN  JoinWith(" ", [k \in 1..Len(label) |-> Capitalize(label[k])])

\* The data dict of TargetModifier(group, definition) (32-63).
TargetModifierData(group, definition) ==
    [group |-> group, label |-> TargetLabel(group, definition.target)]
    @@ TargetModifier(definition)

\* Lines 112-120 of import_modifiers on the (group name, definition) pairs
\* of the file, in order.  A definition with neither "target" nor "macrovar"
\* leaves the variable modifier as the round before set it.
RECURSIVE ImportLoop(_, _, _)
ImportLoop(pairs, table, acc) ==
    IF pairs = <<>> THEN acc
    ELSE LET groupname == Head(pairs).groupname
             definition == Head(pairs).definition
             modifier ==
                 IF "target" \in DOMAIN definition
                 THEN Built(TargetModifierData(groupname, definition))
                 ELSE IF "macrovar" \in DOMAIN definition
                 THEN MacroModifier(groupname, definition, table)
                 ELSE IF acc.modifier.has THEN Built(acc.modifier.val)
                 ELSE Raised("UnboundLocalError")
             old == IF groupname \in DOMAIN acc.groups THEN acc.groups[groupname]
                    ELSE <<>>
         IN  IF modifier.kind # "modifier" THEN modifier
             ELSE ImportLoop(Tail(pairs), table,
                             [kind |-> "groups",
                              groups |-> (groupname :> ((modifier.data.label :> modifier.data) @@ old))
                                         @@ acc.groups,
                              modifier |-> Some(modifier.data)])

\* The pairs of a modifiers file: line 113 capitalizes the group name.
Pairs(data) ==
    Flatten([g \in 1..Len(data) |->
                [m \in 1..Len(data[g].modifiers) |->
                    [groupname |-> Capitalize(data[g].group),
                     definition |-> data[g].modifiers[m]]]])

\* import_modifiers (106-123) after macro.json was loaded as table: the
\* groups it writes to the prim, or the exception it ends with.
import_modifiers(data, table) ==
    ImportLoop(Pairs(data), table, [kind |-> "groups", groups |-> <<>>, modifier |-> None])

(* The files of the model. *)

AgeParts == <<Part(Zero, Rat(1, 2), "baby", "young"), Part(Rat(1, 2), One, "young", "old")>>

\* macro.json: an empty object, a table of macro targets, and a table
\* without the "macrotargets" key.
MacroFiles ==
    { <<>>,
      [macrotargets |-> (<<"a", "g", "e">> :> [label |-> <<"A", "g", "e">>, parts |-> AgeParts])],
      [other |-> <<>>] }

MacroDefinitions ==
    { [macrovar |-> <<"A", "g", "e">>],
      [macrovar |-> <<"A", "f">>, modifierType |-> "EthnicModifier"],
      [macrovar |-> <<"E", "g", "o">>],
      [macrovar |-> <<"a", "g", "e">>, modifierType |-> "MacroModifier"],
      [target |-> <<"a">>] }

GroupNames == { <<"M", "a">>, <<"M", "a", "-", "u">>, <<"A", "-", "m", "-", "n">> }

Group(group, modifiers) == [group |-> group, modifiers |-> modifiers]

\* modeling_modifiers.json.
ModifierFiles ==
    { <<Group(<<"m", "a">>, <<[macrovar |-> <<"A", "g", "e">>],
                             [macrovar |-> <<"A", "f">>, modifierType |-> "EthnicModifier"]>>)>>,
      <<Group(<<"a", "-", "m">>, <<[target |-> <<"a">>],
                                  [target |-> <<"m", "-", "n">>, min |-> <<"a">>, max |-> <<"b">>]>>)>>,
      <<Group(<<"m">>, <<[target |-> <<"m", "-", "n", "|", "x">>], [macrovar |-> <<"a", "g", "e">>]>>),
        Group(<<"a">>, <<[other |-> <<"x">>]>>)>>,
      <<Group(<<"m">>, <<[other |-> <<"x">>]>>)>> }

InitImport ==
    /\ pc = At_("modifiers", 0)
    /\ macrodata = <<>>
    /\ stage = NoStage
    /\ targets_dir = <<>>
    /\ log = <<>>
    /\ loc = NoCall
    /\ modifier_data = NoModifier
    /\ blendshape_vals = None
    /\ mesh_verts = <<>>
    /\ blendshapes = <<>>
    /\ rig = <<>>
    /\ weights_data = <<>>
    /\ skel = NoSkeleton
    /\ binding = NoBinding
    /\ skeltargets = <<>>
    /\ files = <<>>
    /\ anim = <<>>
    /\ diag = "none"
    /\ saved = None
    /\ run = 1
    /\ pool = NoPool

\* import_macrodata_mappings (136-138).
ImportMacrodataMappings ==
    /\ pc.phase = "modifiers"
    /\ \E file \in MacroFiles : macrodata' = file
    /\ loc' = [fn |-> "import_macrodata_mappings"]
    /\ UNCHANGED <<pc, mesh_verts, rig, weights_data, skel, binding, blendshapes,
                   skeltargets, files, anim, diag, saved, modifier_data,
                   blendshape_vals, stage, targets_dir, log>>
    /\ UNCHANGED run
    /\ UNCHANGED pool

\* MacroModifier(group, modifier_data) called with macrodata as it is.
ConstructMacroModifier ==
    /\ pc.phase = "modifiers"
    /\ \E group \in GroupNames, definition \in MacroDefinitions :
         loc' = [fn |-> "MacroModifier", group |-> group, definition |-> definition,
                 table |-> macrodata,
                 result |-> MacroModifier(group, definition, macrodata)]
    /\ UNCHANGED <<pc, mesh_verts, rig, weights_data, skel, binding, blendshapes,
                   skeltargets, files, anim, diag, saved, modifier_data,
                   blendshape_vals, macrodata, stage, targets_dir, log>>
    /\ UNCHANGED run
    /\ UNCHANGED pool

\* import_modifiers (106-123): line 109 loads macro.json, then the file of
\* the modifiers is read and the groups are written to the prim.
ImportModifiers ==
    /\ pc.phase = "modifiers"
    /\ \E file \in MacroFiles, data \in ModifierFiles :
         LET result == import_modifiers(data, file)
         IN  /\ macrodata' = file
             /\ loc' = [fn |-> "import_modifiers", data |-> data, table |-> file,
                        result |-> result]
             /\ IF result.kind = "groups"
                THEN /\ stage' = [stage EXCEPT !.modifiers = Some(result.groups)]
                     /\ UNCHANGED <<pc, diag>>
                ELSE /\ diag' = result.kind
                     /\ pc' = At_("raised", 0)
                     /\ stage' = stage
    /\ UNCHANGED <<mesh_verts, rig, weights_data, skel, binding, blendshapes,
                   skeltargets, files, anim, saved, modifier_data,
                   blendshape_vals, targets_dir, log>>
    /\ UNCHANGED run
    /\ UNCHANGED pool

NextImport == ImportMacrodataMappings \/ ConstructMacroModifier \/ ImportModifiers

SpecImport == InitImport /\ [][NextImport]_vars

\* A MacroModifier was constructed, directly or by import_modifiers for a
\* definition with a "macrovar".
HasMacrovar(data) ==
    \E g \in 1..Len(data) : \E m \in 1..Len(data[g].modifiers) :
        "macrovar" \in DOMAIN data[g].modifiers[m]

\* C17: a MacroModifier is constructed successfully only when
\* import_macrodata_mappings has loaded a macro-data table that is not empty;
\* constructing one while the table is unloaded or empty fails with an error
\* and yields no modifier record.
C17_MacrodataLoadedFirst ==
    /\ loc.fn = "MacroModifier" =>
          /\ loc.result.kind = "modifier" => (loc.table # <<>> /\ macrodata # <<>>)
          /\ loc.table = <<>> => loc.result = Raised("ValueError")
    /\ (loc.fn = "import_modifiers" /\ HasMacrovar(loc.data)) =>
          /\ loc.result.kind = "groups" => loc.table # <<>>
          /\ loc.table = <<>> => (loc.result = Raised("ValueError") /\ diag = "ValueError")

\* An ethnic modifier, which reads nothing of the table, was constructed
\* before the table was loaded, and the constructor raised.
C17_Witness ==
    /\ loc.fn = "MacroModifier"
    /\ loc.table = <<>>
    /\ "modifierType" \in DOMAIN loc.definition
    /\ loc.definition.modifierType = "EthnicModifier"
    /\ loc.result = Raised("ValueError")

-----------------------------------------------------------------------------
(* The joint order of create_skeleton. *)

BoneOf(name) == rig[CHOOSE k \in 1..Len(rig) : rig[k].name = name]

RigIndex(name) == CHOOSE k \in 1..Len(rig) : rig[k].name = name

\* The last parentless bone of the input.
LastParentless ==
    rig[CHOOSE k \in 1..Len(rig) :
            /\ rig[k].parent = NoParent
            /\ \A j \in 1..Len(rig) : rig[j].parent = NoParent => j <= k].name

\* The bone is the last parentless bone or below it in the tree.
RECURSIVE Descends(_)
Descends(name) ==
    \/ name = LastParentless
    \/ /\ BoneOf(name).parent # NoParent
       /\ Descends(BoneOf(name).parent)

\* The position of a joint in the joint names.
Pos(name) == CHOOSE i \in 1..Len(skel.joint_names) : skel.joint_names[i] = name

\* C20: the joint order create_skeleton produces is the breadth-first
\* traversal, children in input order, of the tree rooted at the last
\* parentless bone of the input: that bone is at position 0, every bone
\* below it appears exactly once and no other bone appears, every parent
\* precedes its children, and the joint names, joint paths, bind transforms
\* and rest transforms have the same length, position i of each describing
\* the same joint.
C20_JointOrderBreadthFirst ==
    SkeletonBuilt =>
        LET names == skel.joint_names
            n == Len(names)
        IN  /\ Len(skel.joints) = n
            /\ Len(skel.bindTransforms) = n
            /\ Len(skel.restTransforms) = n
            /\ names[1] = LastParentless
            /\ Range(names) = {b \in BoneNames : Descends(b)}
            /\ Cardinality(Range(names)) = n
            /\ skel.joints[1] = <<names[1]>>
            /\ \A i \in 2..n :
                  LET parent == BoneOf(names[i]).parent
                  IN  /\ parent \in Range(names)
                      /\ Pos(parent) < i
                      /\ skel.joints[i] = Append(skel.joints[Pos(parent)], names[i])
                      /\ skel.bindTransforms[i] =
                             Mean(Take(mesh_verts, BoneOf(names[i]).head))
                      /\ skel.restTransforms[i] =
                             VSub(Mean(Take(mesh_verts, BoneOf(names[i]).head)),
                                  Mean(Take(mesh_verts, BoneOf(parent).head)))
            /\ \A i, j \in 2..n :
                  i < j =>
                    LET pi == Pos(BoneOf(names[i]).parent)
                        pj == Pos(BoneOf(names[j]).parent)
                    IN  /\ pi <= pj
                        /\ pi = pj => RigIndex(names[i]) < RigIndex(names[j])

\* A skeleton was built from a file in which a grandchild of the root comes
\* after the second child: the children are joints before the grandchild.
C20_Witness ==
    /\ SkeletonBuilt
    /\ skel.joint_names = <<"root", "spine", "arm", "hand">>
    /\ skel.joints[4] = <<"root", "spine", "hand">>

-----------------------------------------------------------------------------
(* The transforms of the joints below the root. *)

\* The head-vertex group the skeleton recorded for joint i.
HeadGroup(i) == skel.customData[skel.joints[i]]

Centroid(i) == Mean(Take(mesh_verts, HeadGroup(i)))

\* C21: for every non-root joint built by create_skeleton, the bind transform
\* is the translation to the centroid of the joint's own head-vertex group
\* (the head vertices of its bone, as recorded on the skeleton) and the rest
\* transform is the translation by that centroid minus the centroid of its
\* parent's head group; head groups root={0,1}, child={2,3} over
\* [(0,0,0),(0,0,0),(0,1,0),(0,1,0)] give the child bind and rest (0,1,0).
C21_ChildTransforms ==
    SkeletonBuilt =>
        /\ \A i \in 1..Len(skel.joints) :
              ParentIndex(skel.joints, i) # 0 =>
                  /\ HeadGroup(i) = BoneOf(skel.joint_names[i]).head
                  /\ skel.bindTransforms[i] = Centroid(i)
                  /\ skel.restTransforms[i] =
                         VSub(Centroid(i), Centroid(ParentIndex(skel.joints, i)))
        /\ (/\ rig = << Bone("root", NoParent, <<0, 1>>), Bone("spine", "root", <<2, 3>>) >>
            /\ mesh_verts = <<Vec(0, 0, 0), Vec(0, 0, 0), Vec(0, 1, 0), Vec(0, 1, 0)>>)
              => /\ skel.bindTransforms[2] = Vec(0, 1, 0)
                 /\ skel.restTransforms[2] = Vec(0, 1, 0)

\* The skeleton of the example was built.
C21_Witness ==
    /\ SkeletonBuilt
    /\ rig = << Bone("root", NoParent, <<0, 1>>), Bone("spine", "root", <<2, 3>>) >>
    /\ mesh_verts = <<Vec(0, 0, 0), Vec(0, 0, 0), Vec(0, 1, 0), Vec(0, 1, 0)>>
    /\ skel.bindTransforms[2] = Vec(0, 1, 0)
    /\ skel.restTransforms[2] = Vec(0, 1, 0)

-----------------------------------------------------------------------------
(* The skeltarget of a blend shape. *)

\* blendshape_to_skeltarget has returned the joint transforms of a blend
\* shape and attached its skeltarget.
SkeltargetMade ==
    /\ loc.fn = "blendshape_to_skeltarget"
    /\ "xforms" \in DOMAIN loc

\* The sum of the offsets blend shape b gives vertex v (0-based), from entry
\* k of its lists on.
RECURSIVE OffsetAt(_, _, _)
OffsetAt(b, v, k) ==
    IF k > Len(b.pointIndices) THEN VZero
    ELSE VAdd(IF b.pointIndices[k] = v THEN b.offsets[k] ELSE VZero,
              OffsetAt(b, v, k + 1))

\* The base mesh deformed by blend shape b alone, at weight 1.
DeformedBy(b) == [v \in 1..Len(mesh_verts) |-> VAdd(mesh_verts[v], OffsetAt(b, v - 1, 1))]

\* The centroid, on the mesh deformed by b, of the head vertices the rig file
\* gives the bone of joint i.
DeformedCentroid(b, i) == Mean(Take(DeformedBy(b), BoneOf(skel.joint_names[i]).head))

\* C22: the SkelTarget blendshape_to_skeltarget produces for a blend shape B
\* has one entry per joint of the rig's joint order, in that order, computed
\* from the base mesh deformed by B alone at weight 1: the root's translation
\* is the centroid of the deformed positions at the root's head-vertex
\* indices, every other joint's translation is its deformed head centroid
\* minus its parent's, with the head-vertex indices recorded at rig build;
\* the .skeltarget file, when the call wrote it, lists the same entries.
C22_SkeltargetFromDeformedMesh ==
    SkeltargetMade =>
        LET record == skeltargets[loc.blendshape_name]
            n == Len(skel.joints)
        IN  /\ record.joints = skel.joints
            /\ Len(record.transforms) = n
            /\ \A i \in 1..n :
                  /\ skel.customData[skel.joints[i]] = BoneOf(skel.joint_names[i]).head
                  /\ record.transforms[i] =
                         IF ParentIndex(skel.joints, i) = 0
                         THEN DeformedCentroid(Current, i)
                         ELSE VSub(DeformedCentroid(Current, i),
                                   DeformedCentroid(Current, ParentIndex(skel.joints, i)))
            /\ pc.phase = "separate" =>
                  /\ Len(files[loc.blendshape_name].skeleton) = n
                  /\ \A i \in 1..n :
                        files[loc.blendshape_name].skeleton[i] =
                            [joint |-> skel.joints[i], translation |-> record.transforms[i]]

\* The skeltarget of a blend shape that displaces a joint below the root, in
\* a scene whose other blend shape moves a head vertex too.
C22_Witness ==
    /\ SkeltargetMade
    /\ Len(blendshapes) > 1
    /\ \E i \in 1..Len(skel.joints) :
          /\ ParentIndex(skel.joints, i) # 0
          /\ ~VHasNaN(loc.xforms[i])
          /\ loc.xforms[i] # joints_from_points(skel, mesh_verts)[i]
    /\ \E j \in 1..Len(blendshapes) :
          /\ blendshapes[j].name # loc.blendshape_name
          /\ Range(blendshapes[j].pointIndices) \cap HeadVertices # {}

-----------------------------------------------------------------------------
(* Which sub-meshes a target is bound to. *)

\* The round registered a blend shape: the file gave a two-dimensional array.
Registered ==
    /\ RoundFile.content.kind = "rows"
    /\ Len(RoundFile.content.rows) > 1

\* The changed vertex indices of the file of the round.
ChangedIndices == [k \in 1..Len(RoundFile.content.rows) |-> RoundFile.content.rows[k].index]

\* min(vertex indices of the mesh) <= i <= max(vertex indices of the mesh).
WithinRange(mesh, i) ==
    /\ \E f \in 1..Len(mesh.faceVertexIndices) : mesh.faceVertexIndices[f] <= i
    /\ \E f \in 1..Len(mesh.faceVertexIndices) : mesh.faceVertexIndices[f] >= i

\* The blend shape of the round is a target of the mesh's relationship.
BoundTo(mesh) == RoundPath \in Range(mesh.targets)

\* C23: for every imported target and every sub-mesh M, the target is bound
\* to M if and only if at least one of its changed vertex indices i has
\* min(M's vertex indices) <= i <= max(M's vertex indices).
C23_BoundIffIndexInRange ==
    (Round /\ Registered) =>
        \A m \in 1..Len(stage.meshes) :
            BoundTo(stage.meshes[m]) <=>
                \E k \in 1..Len(ChangedIndices) :
                    WithinRange(stage.meshes[m], ChangedIndices[k])

-----------------------------------------------------------------------------
(* The shape of the skin binding arrays. *)

\* The entries of the weights table for vertex idx (0-based) on joints of
\* the joint order: <<position of the joint (1-based), number of the entry>>.
EntriesOf(idx) ==
    {je \in (1..Len(skel.joint_names)) \X (1..NumVerts) :
        /\ skel.joint_names[je[1]] \in DOMAIN weights_data
        /\ je[2] <= Len(weights_data[skel.joint_names[je[1]]])
        /\ weights_data[skel.joint_names[je[1]]][je[2]][1] = idx}

EntryWeight(je) == weights_data[skel.joint_names[je[1]]][je[2]][2]

\* The total of the weights of the entries in the set.
RECURSIVE TotalWeight(_)
TotalWeight(entries) ==
    IF entries = {} THEN Zero
    ELSE LET je == CHOOSE x \in entries : TRUE
         IN  RAdd(EntryWeight(je), TotalWeight(entries \ {je}))

\* The largest number of influences of a vertex.
MaxInfluences ==
    CHOOSE w \in 0..(NumVerts * NumVerts) :
        /\ \A v \in 1..Len(mesh_verts) : Cardinality(EntriesOf(v - 1)) <= w
        /\ \E v \in 1..Len(mesh_verts) : Cardinality(EntriesOf(v - 1)) = w

\* C24: vertices_to_weights returns two arrays of the same shape [vertex
\* count x W], W the largest number of influences of a vertex: for every
\* (vertex, weight) entry of a joint of the joint order the vertex's row
\* holds the pair (position of the joint in the joint order, weight), the
\* weight divided by the total of the row as 4.2 has it; rows with fewer
\* than W influences are padded with (0, 0) pairs; joints of the weights
\* table that are not in the joint order give no pair and no error.
C24_DenseWeightArrays ==
    SkeletonBuilt =>
        /\ binding # NoBinding
        /\ Len(binding.joint_indices) = Len(mesh_verts)
        /\ Len(binding.joint_weights) = Len(mesh_verts)
        /\ \A v \in 1..Len(mesh_verts) :
              LET entries == EntriesOf(v - 1)
                  n == Cardinality(entries)
                  indices == binding.joint_indices[v]
                  weights == binding.joint_weights[v]
              IN  /\ Len(indices) = MaxInfluences
                  /\ Len(weights) = MaxInfluences
                  /\ \A je \in entries :
                        \E p \in 1..n :
                            /\ indices[p] = je[1] - 1
                            /\ weights[p] = RDiv(EntryWeight(je), TotalWeight(entries))
                  /\ \A p \in (n + 1)..MaxInfluences :
                        indices[p] = 0 /\ weights[p] = Zero

-----------------------------------------------------------------------------
(* The worker pool of applyJointAnimation (separate_skeltargets.py 156-173): *)
(* the main thread submits one task per range of points to a                 *)
(* ThreadPoolExecutor and waits for their futures; the workers take the      *)
(* tasks in the order of submission and run transform_points, which reads    *)
(* and writes one slot of skinned_points at a time.                          *)

\* The most points of a call.
MaxPoints == 5

\* The points of a task: 1000 in the code (line 161), fewer here so that a
\* call of MaxPoints points has several tasks and a shorter last one.
grain_size == 2

\* The threads of the executor.
NumWorkers == 2

\* The smaller of two integers.
Min(a, b) == IF a < b THEN a ELSE b

\* A range that reaches one point into the next range.
RangeEnd_Overlapping(i, points_size) == Min(i + grain_size + 1, points_size)

\* Line 167: the end of the range that starts at i.
RangeEnd(i, points_size) == Min(i + grain_size, points_size)

Future(start, end) == [start |-> start, end |-> end, state |-> "queued"]

Idle == [task |-> 0, i |-> 0, tmp |-> None]

\* The call as lines 160-164 leave it: the skinned points, the transform the
\* tasks apply, no future yet, every worker idle, no slot written.
StartPool(points, skel_to_prim_local) ==
    [main |-> "submit", i |-> 0, k |-> 1,
     points |-> points,
     skinned_points |-> points,
     skel_to_prim_local |-> skel_to_prim_local,
     futures |-> <<>>,
     workers |-> [w \in 1..NumWorkers |-> Idle],
     writes |-> [v \in 1..Len(points) |-> <<>>]]

\* skel_to_prim_local.Transform(point): the transform is a translation.
Transform(skel_to_prim_local, point) == VAdd(point, skel_to_prim_local)

InitPool ==
    /\ pc = At_("pool", 0)
    /\ \E n \in 0..MaxPoints, t \in {VZero, Vec(0, 1, 0)} :
          pool = StartPool([v \in 1..n |-> Vec(v, 0, 0)], t)
    /\ loc = NoCall
    /\ modifier_data = NoModifier
    /\ blendshape_vals = None
    /\ mesh_verts = <<>>
    /\ blendshapes = <<>>
    /\ rig = <<>>
    /\ weights_data = <<>>
    /\ skel = NoSkeleton
    /\ binding = NoBinding
    /\ skeltargets = <<>>
    /\ files = <<>>
    /\ anim = <<>>
    /\ diag = "none"
    /\ saved = None
    /\ run = 1
    /\ NoBuild

PoolFrame ==
    UNCHANGED <<pc, mesh_verts, rig, weights_data, skel, binding, blendshapes,
                skeltargets, files, anim, diag, saved, modifier_data,
                blendshape_vals, macrodata, stage, targets_dir, log, run>>

\* Lines 165-168: one round of the loop over range(0, points_size, grain_size).
Submit ==
    /\ pool.main = "submit"
    /\ pool.i < Len(pool.points)
    /\ LET start == pool.i
           end == RangeEnd(pool.i, Len(pool.points))
       IN  pool' = [pool EXCEPT !.futures = Append(@, Future(start, end)),
                                !.i = @ + grain_size]
    /\ UNCHANGED loc
    /\ PoolFrame

\* The loop of line 165 is over: the main thread goes on to line 170.
AllSubmitted ==
    /\ pool.main = "submit"
    /\ pool.i >= Len(pool.points)
    /\ pool' = [pool EXCEPT !.main = "wait"]
    /\ UNCHANGED loc
    /\ PoolFrame

\* An idle worker takes the task submitted first among those not yet taken.
TakeTask(w) ==
    /\ pool.main # "none"
    /\ pool.workers[w].task = 0
    /\ \E t \in 1..Len(pool.futures) :
          /\ pool.futures[t].state = "queued"
          /\ \A u \in 1..(t - 1) : pool.futures[u].state # "queued"
          /\ pool' = [pool EXCEPT
                        !.futures[t].state = "running",
                        !.workers[w] = [task |-> t, i |-> pool.futures[t].start,
                                        tmp |-> None]]
    /\ UNCHANGED loc
    /\ PoolFrame

\* Line 158, the right-hand side: the worker reads slot i.
ReadPoint(w) ==
    /\ pool.main # "none"
    /\ pool.workers[w].task # 0
    /\ ~pool.workers[w].tmp.has
    /\ pool.workers[w].i < pool.futures[pool.workers[w].task].end
    /\ pool' = [pool EXCEPT !.workers[w].tmp =
                                Some(At(pool.skinned_points, pool.workers[w].i))]
    /\ UNCHANGED loc
    /\ PoolFrame

\* Line 158, the assignment: the worker writes the transformed point to
\* slot i and goes on to the next i.
WritePoint(w) ==
    /\ pool.main # "none"
    /\ pool.workers[w].task # 0
    /\ pool.workers[w].tmp.has
    /\ LET i == pool.workers[w].i
       IN  pool' = [pool EXCEPT
                      !.skinned_points[i + 1] =
                          Transform(pool.skel_to_prim_local, pool.workers[w].tmp.val),
                      !.writes[i + 1] = Append(@, <<pool.workers[w].task, w>>),
                      !.workers[w].i = i + 1,
                      !.workers[w].tmp = None]
    /\ UNCHANGED loc
    /\ PoolFrame

\* transform_points returns: the future of the task is done.
FinishTask(w) ==
    /\ pool.main # "none"
    /\ pool.workers[w].task # 0
    /\ ~pool.workers[w].tmp.has
    /\ pool.workers[w].i >= pool.futures[pool.workers[w].task].end
    /\ pool' = [pool EXCEPT !.futures[pool.workers[w].task].state = "done",
                            !.workers[w] = Idle]
    /\ UNCHANGED loc
    /\ PoolFrame

\* Lines 170-171: future.result() of future k returns when the task is done.
FutureResult ==
    /\ pool.main = "wait"
    /\ pool.k <= Len(pool.futures)
    /\ pool.futures[pool.k].state = "done"
    /\ pool' = [pool EXCEPT !.k = @ + 1]
    /\ UNCHANGED loc
    /\ PoolFrame

\* The with block of line 163 ends (the executor is shut down, waiting for
\* its threads) and line 173 returns skinned_points.
ReturnPoints ==
    /\ pool.main = "wait"
    /\ pool.k > Len(pool.futures)
    /\ \A w \in 1..NumWorkers : pool.workers[w].task = 0
    /\ pool' = [pool EXCEPT !.main = "returned"]
    /\ loc' = [fn |-> "applyJointAnimation", skinned_points |-> pool.skinned_points]
    /\ PoolFrame

NextPool ==
    \/ Submit
    \/ AllSubmitted
    \/ \E w \in 1..NumWorkers : TakeTask(w)
    \/ \E w \in 1..NumWorkers : ReadPoint(w)
    \/ \E w \in 1..NumWorkers : WritePoint(w)
    \/ \E w \in 1..NumWorkers : FinishTask(w)
    \/ FutureResult
    \/ ReturnPoints

SpecPool == InitPool /\ [][NextPool]_vars

\* The tasks whose range holds point i (0-based).
TasksOf(i) ==
    {t \in 1..Len(pool.futures) : pool.futures[t].start <= i /\ i < pool.futures[t].end}

\* C25: the index ranges submitted to the worker pool partition [0, n) for
\* every point count n: every point index is in exactly one task's range, no
\* two tasks write the same output slot, and the function returns only after
\* every task has completed; under every interleaving of the workers each
\* point is transformed exactly once and the result is that of the
\* sequential loop.
C25_RangesPartitionPoints ==
    pool.main # "none" =>
        LET n == Len(pool.points) IN
        /\ \A i \in 0..(n - 1) :
              /\ Cardinality(TasksOf(i)) <= 1
              /\ pool.main # "submit" => Cardinality(TasksOf(i)) = 1
              /\ Len(pool.writes[i + 1]) <= 1
              /\ \A e \in 1..Len(pool.writes[i + 1]) : pool.writes[i + 1][e][1] \in TasksOf(i)
        /\ \A t \in 1..Len(pool.futures) :
              /\ 0 <= pool.futures[t].start
              /\ pool.futures[t].start < pool.futures[t].end
              /\ pool.futures[t].end <= n
        /\ \A w1, w2 \in 1..NumWorkers :
              (w1 # w2 /\ pool.workers[w1].tmp.has /\ pool.workers[w2].tmp.has)
                  => pool.workers[w1].i # pool.workers[w2].i
        /\ pool.main = "returned" =>
              /\ \A t \in 1..Len(pool.futures) : pool.futures[t].state = "done"
              /\ \A i \in 1..n : Len(pool.writes[i]) = 1
              /\ loc.skinned_points =
                     [i \in 1..n |-> VAdd(pool.points[i], pool.skel_to_prim_local)]

\* A call on the most points returned after both workers wrote slots, the
\* last task being shorter than the others.
C25_Witness ==
    /\ pool.main = "returned"
    /\ Len(pool.points) = MaxPoints
    /\ Len(pool.futures) > 2
    /\ pool.skel_to_prim_local # VZero
    /\ loc.skinned_points # pool.points
    /\ \E i, j \in 1..Len(pool.points) : pool.writes[i][1][2] # pool.writes[j][1][2]

-----------------------------------------------------------------------------
(* The records a blend shape stores. *)

\* The records of the file of the round.
Records == RoundFile.content.rows

\* C26: for every well-formed target file with n >= 1 records (n = 1
\* included), mhtarget_to_blendshapes registers a blend shape that stores
\* exactly n point indices and n three-component offsets in file order:
\* index k is the first column and offset k the other three columns of
\* record k.
C26_RecordsStoredInFileOrder ==
    (Round /\ RoundFile.content.kind = "rows" /\ Len(Records) >= 1) =>
        /\ diag = "none"
        /\ RoundPath \in DOMAIN stage.prims
        /\ Len(stage.prims[RoundPath].pointIndices) = Len(Records)
        /\ Len(stage.prims[RoundPath].offsets) = Len(Records)
        /\ \A k \in 1..Len(Records) :
              /\ stage.prims[RoundPath].pointIndices[k] = Records[k].index
              /\ stage.prims[RoundPath].offsets[k] = Records[k].offset
              /\ Len(stage.prims[RoundPath].offsets[k]) = 3

-----------------------------------------------------------------------------
(* A modifier from its definition to its evaluation: import_modifiers of     *)
(* scripts/buildusd/modifiers.py writes the data dicts of the modifiers to   *)
(* the prim, ModifierUI.load_values (ext_ui.py 88-111) reads them back and   *)
(* the callback of a slider evaluates one of them.  JSON keeps a key whose   *)
(* value is None as a key whose value is null.                               *)

\* load_values and create_callback (ext_ui.py 72, 107-111): the callback of
\* a slider closes over the data dict stored for one modifier of one group.
LoadValues ==
    /\ pc.phase = "modifiers"
    /\ stage.modifiers.has
    /\ \E group \in DOMAIN stage.modifiers.val :
         \E label \in DOMAIN stage.modifiers.val[group] :
            modifier_data' = stage.modifiers.val[group][label]
    /\ pc' = At_("ui", 0)
    /\ loc' = [fn |-> "load_values"]
    /\ UNCHANGED <<mesh_verts, rig, weights_data, skel, binding, blendshapes,
                   skeltargets, files, anim, diag, saved, blendshape_vals>>
    /\ UNCHANGED run
    /\ UNCHANGED pool
    /\ UNCHANGED build_state

NextVariant == ImportModifiers \/ LoadValues \/ Callback

SpecVariant == InitImport /\ [][NextVariant]_vars

\* The definitions with a "target" of the modifier files whose data dict is
\* the record the callback closes over.
DefinitionsOfRecord ==
    {d \in UNION {UNION {{file[g].modifiers[m] : m \in 1..Len(file[g].modifiers)} :
                            g \in 1..Len(file)} : file \in ModifierFiles} :
        /\ "target" \in DOMAIN d
        /\ \E file \in ModifierFiles : \E g \in 1..Len(file) :
              TargetModifierData(Capitalize(file[g].group), d) = modifier_data}

\* C27: the variant of a modifier is decided by the fields of its definition
\* end to end: the record import_modifiers produces for a definition with a
\* target and no min/max takes, in get_blendshape_vals, the single-blend
\* behaviour and returns a weight keyed by the name of that blend; the record
\* of a definition with both min and max takes the two-sided behaviour and
\* returns a weight keyed by the min-side or the max-side blend name; no
\* evaluation returns a weight keyed by an undefined (null) blend name.
C27_VariantByDefinition ==
    Evaluated =>
        /\ \A d \in DefinitionsOfRecord :
              /\ blendshape_vals.kind = "dict"
              /\ IF "min" \in DOMAIN d /\ "max" \in DOMAIN d
                 THEN blendshape_vals.key \in
                          {Some(MakeValidIdentifier(MakeValidIdentifier(d.target) \o <<"_">> \o d.min)),
                           Some(MakeValidIdentifier(MakeValidIdentifier(d.target) \o <<"_">> \o d.max))}
                 ELSE /\ blendshape_vals.key = Some(MakeValidIdentifier(d.target))
                      /\ blendshape_vals.value = RMax(Zero, RMin(loc.v, One))
        /\ blendshape_vals.kind = "dict" => blendshape_vals.key.has

-----------------------------------------------------------------------------
(* What the separation of one blend shape writes. *)

\* A step of blendshape_to_skeltarget or separate_blendshape on blend shape
\* pc.i leaves everything but that blend shape's offsets and skeltarget in
\* place.
SeparationFrame ==
    (pc.phase \in {"to_skeltarget", "separate"} /\ pc' # pc) =>
        LET name == blendshapes[pc.i].name IN
        /\ mesh_verts' = mesh_verts
        /\ skel' = skel
        /\ binding' = binding
        /\ Len(blendshapes') = Len(blendshapes)
        /\ \A i \in 1..Len(blendshapes) :
              /\ blendshapes'[i].name = blendshapes[i].name
              /\ blendshapes'[i].pointIndices = blendshapes[i].pointIndices
              /\ i # pc.i => blendshapes'[i] = blendshapes[i]
        /\ DOMAIN skeltargets' \subseteq DOMAIN skeltargets \cup {name}
        /\ \A other \in DOMAIN skeltargets \ {name} : skeltargets'[other] = skeltargets[other]
        /\ DOMAIN files' \subseteq DOMAIN files \cup {name}
        /\ \A other \in DOMAIN files \ {name} : files'[other] = files[other]
        /\ pc.phase = "separate" =>
              /\ blendshapes'[pc.i].skeltarget = blendshapes[pc.i].skeltarget
              /\ name \in DOMAIN skeltargets'

\* The offsets the separation gives blend shape b when it is the only target
\* processed: the imported offsets less the displacement of the mesh skinned
\* to the joints of the mesh deformed by b alone.
SeparatedAlone(b, skinned_ok) ==
    CorrectedOffsets(b.offsets, b.pointIndices,
                     applyJointAnimation(binding, skel,
                                         joints_from_points(skel, DeformedBy(b)),
                                         mesh_verts, skinned_ok),
                     mesh_verts)

\* In the first run, every blend shape separated so far has the offsets it
\* would have were it processed alone.
OrderIndependent ==
    (run = 1 /\ SkeletonBuilt) =>
        \A i \in 1..Len(blendshapes) :
            blendshapes[i].separated =>
                \E skinned_ok \in BOOLEAN :
                    blendshapes[i].offsets =
                        SeparatedAlone(Imported(blendshapes[i].name), skinned_ok)

\* The transforms of the skeleton's animation source are as they were.
AnimationUntouched ==
    (pc.phase \in {"to_skeltarget", "separate"} /\ pc' # pc) => anim' = anim

\* C28 as stated: separating one blend shape A (blendshape_to_skeltarget, then
\* separate_blendshape) changes only A's offsets and adds A's skeltarget
\* record, and nothing else of the stage; so the corrected offsets of a target
\* do not depend on the order in which the targets are processed.
C28_ChangesOnlyOffsetsAndRecord ==
    [][SeparationFrame /\ AnimationUntouched]_vars /\ []OrderIndependent

\* separate_blendshape leaves the animation source at the rest pose
\* (calculate_skeltarget_verts, line 129-130).
AnimationReset ==
    (pc.phase = "separate" /\ pc' # pc) => anim' = skel.restTransforms

\* C28, amended: separating one blend shape A changes A's offsets, adds A's
\* skeltarget record and sets the transforms of the skeleton's animation
\* source to the rest transforms: the stored points of the base mesh, the
\* skeleton's rest and bind transforms and joint list, the skin binding
\* arrays, A's point indices and the offsets and point indices of every other
\* blend shape are unchanged; so the corrected offsets of a target do not
\* depend on the order in which the targets are processed.
C28_SeparationFrame ==
    [][SeparationFrame /\ AnimationReset]_vars /\ []OrderIndependent

\* Two blend shapes of one scene were separated one after the other, both
\* with offsets changed by the skinning.
C28_Witness ==
    /\ run = 1
    /\ Separated
    /\ anim = skel.restTransforms
    /\ Len(blendshapes) = 2
    /\ \A i \in 1..2 :
          /\ blendshapes[i].separated
          /\ \A k \in 1..Len(blendshapes[i].offsets) : ~VHasNaN(blendshapes[i].offsets[k])
          /\ blendshapes[i].offsets # Imported(blendshapes[i].name).offsets

-----------------------------------------------------------------------------
(* The two lists of a sub-mesh: skel:blendShapes and skel:blendShapeTargets. *)

\* Entry i of the name list is the name of the blend shape at entry i of the
\* relationship list, and there are as many of the one as of the other.
ListsMatch(mesh) ==
    /\ Len(mesh.blendShapes) = Len(mesh.targets)
    /\ \A i \in 1..Len(mesh.targets) : mesh.blendShapes[i] = mesh.targets[i][2]

\* C29: after any sequence of mhtarget_to_blendshapes calls (targets of
\* different groups that normalize to the same name and re-imports of a file
\* included), the blend-shape name list and the blend-shape target
\* relationship list of every sub-mesh have the same length, and entry i of
\* the name list is the name of the blend shape at entry i of the
\* relationship list.
C29_NamesMatchTargets ==
    \A k \in 1..Len(stage.meshes) : ListsMatch(stage.meshes[k])

\* The same, for a sub-mesh no two of whose bound blend shapes share a name.
C29_MatchWhenNamesDiffer ==
    \A k \in 1..Len(stage.meshes) :
        LET targets == stage.meshes[k].targets
        IN  (\A i, j \in 1..Len(targets) : targets[i][2] = targets[j][2] => i = j)
                => ListsMatch(stage.meshes[k])

\* A sub-mesh bound to blend shapes of two groups under one name.
C29_SameNameTwoGroups ==
    \E k \in 1..Len(stage.meshes) :
        \E i, j \in 1..Len(stage.meshes[k].targets) :
            /\ i # j
            /\ stage.meshes[k].targets[i][2] = stage.meshes[k].targets[j][2]

-----------------------------------------------------------------------------
(* An error in the middle of the loop of the separation script. *)

\* The loop ended with an exception on blend shape pc.i, the blend shapes
\* before it fully separated.
Aborted ==
    /\ pc.phase = "raised"
    /\ pc.i > 1
    /\ \A i \in 1..(pc.i - 1) : blendshapes[i].separated

\* The blend shape i of the stage on disk is the separated one of the stage
\* in memory, with the skeltarget record the file of its name was written
\* from.
Persisted(i) ==
    LET name == blendshapes[i].name IN
    /\ saved.has
    /\ i <= Len(saved.val)
    /\ saved.val[i].name = name
    /\ saved.val[i].offsets = blendshapes[i].offsets
    /\ saved.val[i].skeltarget = blendshapes[i].skeltarget
    /\ name \in DOMAIN skeltargets
    /\ name \in DOMAIN files
    /\ files[name] = SkeltargetFile(name, skeltargets[name].joints,
                                    skeltargets[name].transforms)

\* C30: when the separation batch is aborted after the targets 1..k-1 were
\* fully separated and before target k completes, the corrected offsets and
\* the skeltarget records of the targets 1..k-1 are in the persisted output,
\* consistent with the .skeltarget files already written for them.
C30_SeparatedTargetsRetained ==
    Aborted => \A i \in 1..(pc.i - 1) : Persisted(i)

\* What is kept is the stage in memory and the files: the blend shapes
\* before k stay separated with their record and their file, and nothing
\* was saved in this run.
C30_RetainedInMemoryOnly ==
    (Aborted /\ run = 1) =>
        /\ ~saved.has
        /\ \A i \in 1..(pc.i - 1) :
              LET name == blendshapes[i].name IN
              /\ name \in DOMAIN skeltargets
              /\ name \in DOMAIN files
              /\ files[name] = SkeltargetFile(name, skeltargets[name].joints,
                                              skeltargets[name].transforms)

====
